---- MODULE Spec2Model ----
(***************************************************************************)
(* Seclume archive reader: extract_files (extract.c) and list_files        *)
(* (list.c) as one state machine over an archive stream, a file system and *)
(* the heap/key/handle state of the running call.                          *)
(*                                                                         *)
(* Strings are sequences of one-character strings, so that strstr, strcmp  *)
(* and strrchr are computed character by character.  Keys, MACs and AEAD   *)
(* blobs are symbolic (ideal cryptography): a MAC is the pair of its key   *)
(* and its message, a sealed blob opens only under the key that sealed it  *)
(* and only when no bit of it was changed.                                 *)
(***************************************************************************)
EXTENDS Integers, Sequences, FiniteSets, TLC

(***************************************************************************)
(* Bounds of the model.                                                    *)
(***************************************************************************)
MaxEntries == 2
MaxPathLen == 4

(***************************************************************************)
(* Program constants.                                                      *)
(***************************************************************************)
MAX_FILES == 1024
MAX_FILENAME == 256
MAX_OUTDIR == 4096
AES_NONCE_SIZE == 12
AES_TAG_SIZE == 16
\* scaled: sizes in the model are counted in bytes of very small files
MAX_FILE_SIZE == 64
\* sizeof(ArchiveHeader), packed: 4+2+4+16+1+1+4+4096+32
HEADER_SIZE == 4160
\* sizeof(FileEntryPlain), packed: 256+8+8+4
PLAIN_SIZE == 276
\* sizeof(FileEntry): nonce, tag, encrypted_data[sizeof(FileEntryPlain)]
ENTRY_SIZE == AES_NONCE_SIZE + AES_TAG_SIZE + PLAIN_SIZE
\* the number of values of uint64_t and of long: 2^64 in the program, 2^30
\* here, where integers have 32 bits
WordModulus == 1073741824

\* the conversion of a uint64_t to long
ToLong(u) == IF u >= WordModulus \div 2 THEN u - WordModulus ELSE u

COMPRESSION_ZLIB == 0
COMPRESSION_LZMA == 1
\* an optional value: NULL, or the one-element sequence of the value
NULL == <<>>
Some(x) == <<x>>

(***************************************************************************)
(* C strings.                                                              *)
(***************************************************************************)
Chars == {"a", ".", "/", "\\"}

RECURSIVE StringsUpTo(_)
StringsUpTo(n) ==
    IF n = 0 THEN {<<>>}
    ELSE LET shorter == StringsUpTo(n - 1)
         IN  shorter \cup {Append(s, c) : s \in {t \in shorter : Len(t) = n - 1}, c \in Chars}

\* strstr(hay, needle) != NULL
strstr(hay, needle) ==
    \E k \in 1..(Len(hay) - Len(needle) + 1) :
        SubSeq(hay, k, k + Len(needle) - 1) = needle

\* strncmp(s, pre, Len(pre)) == 0
HasPrefix(s, pre) ==
    /\ Len(s) >= Len(pre)
    /\ SubSeq(s, 1, Len(pre)) = pre

\* the index of the last occurrence of c in s, 0 when there is none
strrchr(s, c) ==
    IF \E k \in 1..Len(s) : s[k] = c
    THEN CHOOSE k \in 1..Len(s) : s[k] = c /\ \A j \in (k + 1)..Len(s) : s[j] # c
    ELSE 0

\* the '/'-separated components of a path
RECURSIVE Components(_)
Components(s) ==
    LET k == IF \E j \in 1..Len(s) : s[j] = "/"
             THEN CHOOSE j \in 1..Len(s) : s[j] = "/" /\ \A h \in 1..(j - 1) : s[h] # "/"
             ELSE 0
    IN  IF k = 0 THEN <<s>>
        ELSE <<SubSeq(s, 1, k - 1)>> \o Components(SubSeq(s, k + 1, Len(s)))

DotDot == <<".", ".">>

HasDotDotComponent(s) ==
    \E k \in 1..Len(Components(s)) : Components(s)[k] = DotDot

\* utils.c has_path_traversal: 1 when traversal is detected, else 0
has_path_traversal(path) ==
    IF \/ strstr(path, <<".", ".", "/">>)
       \/ strstr(path, <<".", ".", "\\">>)
       \/ path = DotDot
    THEN 1
    ELSE LET p == IF Len(path) > 0 /\ path[1] = "/" THEN Tail(path) ELSE path
         IN  IF HasPrefix(p, DotDot) /\ (IF Len(p) = 2 THEN TRUE ELSE p[3] = "/")
             THEN 1
             ELSE 0

(***************************************************************************)
(* Primitives.  utils.c derive_key asks OpenSSL's PBKDF2 for the key and   *)
(* hands it five parameters; PBKDF2 reads the ones it knows (RFC 8018      *)
(* defines the password, the salt, the iteration count and the PRF) and    *)
(* leaves any other parameter unread.                                      *)
(***************************************************************************)
Pbkdf2Params == {"pass", "salt", "digest", "iter"}

\* the parameter array of derive_key, utils.c lines 84-90
KdfParams(password, salt, context) ==
    [pass |-> password, salt |-> salt, digest |-> "SHA256", iter |-> 1000000,
     info |-> context]

\* EVP_KDF_derive for PBKDF2: a function of the parameters PBKDF2 reads
Pbkdf2(params) ==
    [n \in Pbkdf2Params \cap DOMAIN params |-> params[n]]

\* utils.c derive_key, when every OpenSSL call succeeds
derive_key(password, salt, context) ==
    Pbkdf2(KdfParams(password, salt, context))

\* a key buffer that holds no derived key: as declared, and after secure_zero
NoKey == [state |-> "uninitialized"]
ZeroKey == [state |-> "zeroed"]

\* a digest that leaves the key out
compute_hmac_unkeyed(key, data) == [k |-> NoKey, m |-> data]

\* utils.c compute_hmac: HMAC-SHA256 of the header bytes before hmac
compute_hmac(key, data) == [k |-> key, m |-> data]

\* header bytes that leave compression_level out
HeaderBytesNoLevel(h) ==
    [magic |-> h.magic, version |-> h.version, file_count |-> h.file_count,
     salt |-> h.salt, compression_algo |-> h.compression_algo,
     compression_level |-> 0,
     outdir_len |-> h.outdir_len, outdir |-> h.outdir]

\* the header bytes before the hmac field: offsetof(ArchiveHeader, hmac)
HeaderBytes(h) ==
    [magic |-> h.magic, version |-> h.version, file_count |-> h.file_count,
     salt |-> h.salt, compression_algo |-> h.compression_algo,
     compression_level |-> h.compression_level,
     outdir_len |-> h.outdir_len, outdir |-> h.outdir]

\* AES-256-GCM seal: the blob remembers its key; intact until a bit is changed
Seal(key, pt, len) == [k |-> key, pt |-> pt, len |-> len, intact |-> TRUE]

\* decrypt_aes_gcm: rc 0 with the plaintext and its length, or rc 1
decrypt_aes_gcm(key, blob) ==
    IF blob.k = key /\ blob.intact
    THEN [rc |-> 0, pt |-> blob.pt, len |-> blob.len]
    ELSE [rc |-> 1, pt |-> <<>>, len |-> 0]

(***************************************************************************)
(* Codec.  A compressed stream is a byte sequence: a format byte (0x78 for *)
(* zlib, 0xFD for xz), a method byte (0 stored, 1 run-length), the body.   *)
(***************************************************************************)
FormatByte(algo) == IF algo = COMPRESSION_ZLIB THEN 120 ELSE 253

RECURSIVE RunLength(_)
RunLength(data) ==
    IF data = <<>> THEN <<>>
    ELSE LET b == data[1]
             n == IF \E k \in 1..Len(data) : data[k] # b
                  THEN (CHOOSE k \in 1..Len(data) :
                            data[k] # b /\ \A j \in 1..(k - 1) : data[j] = b) - 1
                  ELSE Len(data)
         IN  <<n, b>> \o RunLength(SubSeq(data, n + 1, Len(data)))

RECURSIVE Expand(_)
Expand(body) ==
    IF Len(body) < 2 THEN <<>>
    ELSE [j \in 1..body[1] |-> body[2]] \o Expand(SubSeq(body, 3, Len(body)))

compress_data(data, algo, level) ==
    IF level = 0
    THEN <<FormatByte(algo), 0>> \o data
    ELSE <<FormatByte(algo), 1>> \o RunLength(data)

\* decompress_data(in, in_size, out, out_cap, algo): the bytes produced, none
\* (size 0) on a stream of another format, a corrupt stream or a short buffer
decompress_data(comp, out_cap, algo) ==
    IF Len(comp) < 2 \/ comp[1] # FormatByte(algo) \/ comp[2] \notin {0, 1}
    THEN <<>>
    ELSE LET body == SubSeq(comp, 3, Len(comp))
             out  == IF comp[2] = 0 THEN body
                     ELSE IF Len(body) % 2 = 1 THEN <<>> ELSE Expand(body)
         IN  IF Len(out) > out_cap THEN <<>> ELSE out

(***************************************************************************)
(* File system.  A node is named by the sequence of directory names from   *)
(* the root; the process runs in the directory Cwd.                        *)
(***************************************************************************)
Root == <<>>
Cwd == << <<"c">> >>

Dir == [kind |-> "dir", data |-> <<>>, mode |-> 493]
File(data, mode) == [kind |-> "file", data |-> data, mode |-> mode]

IsDir(fsys, key) == key \in DOMAIN fsys /\ fsys[key].kind = "dir"

\* path resolution: every component is looked up in a directory that exists
RECURSIVE Walk(_, _, _)
Walk(fsys, cur, comps) ==
    IF comps = <<>> THEN [ok |-> TRUE, key |-> cur]
    ELSE IF ~IsDir(fsys, cur) THEN [ok |-> FALSE, key |-> cur]
    ELSE LET c == Head(comps)
             next == IF c = <<>> \/ c = <<".">> THEN cur
                     ELSE IF c = DotDot
                          THEN (IF cur = Root THEN Root ELSE SubSeq(cur, 1, Len(cur) - 1))
                          ELSE Append(cur, c)
         IN  Walk(fsys, next, Tail(comps))

Resolve(fsys, path) ==
    IF path = <<>> THEN [ok |-> FALSE, key |-> Cwd]
    ELSE Walk(fsys, IF path[1] = "/" THEN Root ELSE Cwd, Components(path))

\* stat(path, &st) == 0
stat_ok(fsys, path) ==
    LET r == Resolve(fsys, path) IN r.ok /\ r.key \in DOMAIN fsys

\* a test that takes anything that exists for a directory
stat_any(fsys, path) ==
    LET r == Resolve(fsys, path) IN r.ok /\ r.key \in DOMAIN fsys

\* stat(path, &st) == 0 && S_ISDIR(st.st_mode)
stat_isdir(fsys, path) ==
    LET r == Resolve(fsys, path) IN r.ok /\ IsDir(fsys, r.key)

\* a test that finds nothing
access_never(fsys, path) == FALSE

\* access(path, F_OK) == 0
access_ok(fsys, path) == stat_ok(fsys, path)

\* the last component names the node itself: "", "." and ".." name a directory
LastComponent(path) == Components(path)[Len(Components(path))]

\* fopen(path, "wb") succeeds: the path names a file that exists or can be made
fopen_wb_ok(fsys, path) ==
    LET r == Resolve(fsys, path)
    IN  /\ r.ok
        /\ LastComponent(path) \notin {<<>>, <<".">>, DotDot}
        /\ IF r.key \in DOMAIN fsys THEN fsys[r.key].kind = "file" ELSE TRUE

\* a write that leaves one byte more in the file
WriteFileExtraByte(fsys, path, data) ==
    LET key == Resolve(fsys, path).key
    IN  (key :> File(data \o <<0>>, 420)) @@ fsys

\* the file system after fopen(path, "wb"), fwrite(data), fclose
WriteFile(fsys, path, data) ==
    LET key == Resolve(fsys, path).key
        mode == IF key \in DOMAIN fsys THEN fsys[key].mode ELSE 420
    IN  (key :> File(data, mode)) @@ fsys

\* the file system after chmod(path, mode)
Chmod(fsys, path, mode) ==
    LET key == Resolve(fsys, path).key
    IN  [fsys EXCEPT ![key].mode = mode]

\* mkdir(path, 0755) == 0: the parent is a directory and the name is free
mkdir_ok(fsys, path) ==
    LET r == Resolve(fsys, path)
    IN  r.ok /\ r.key \notin DOMAIN fsys

Mkdir(fsys, path) == (Resolve(fsys, path).key :> Dir) @@ fsys

\* lines 31-34: the position of the last separator of filepath, 0 when it
\* has none
LastSlash(filepath) ==
    IF strrchr(filepath, "/") # 0 THEN strrchr(filepath, "/")
    ELSE strrchr(filepath, "\\")

\* line 34: filepath cut at its last separator
ParentPath(filepath) == SubSeq(filepath, 1, LastSlash(filepath) - 1)

\* file_ops.c create_parent_dirs: [rc, fs]
RECURSIVE create_parent_dirs(_, _)
create_parent_dirs(fsys, filepath) ==
    LET slash == LastSlash(filepath)
        path == ParentPath(filepath)
    IN  IF slash = 0 \/ Len(path) = 0 \/ stat_ok(fsys, path)
        THEN [rc |-> 0, fs |-> fsys]
        ELSE LET up == create_parent_dirs(fsys, path)
             IN  IF up.rc # 0 THEN up
                 ELSE IF mkdir_ok(up.fs, path)
                      THEN [rc |-> 0, fs |-> Mkdir(up.fs, path)]
                      ELSE IF stat_ok(up.fs, path)
                           THEN [rc |-> 0, fs |-> up.fs]
                           ELSE [rc |-> 1, fs |-> up.fs]


(***************************************************************************)
(* The archive stream: the header block, then items (a FileEntry record    *)
(* or a payload: nonce, tag, ciphertext), and the length of the stream in  *)
(* bytes, which is less than the items' total when the file is truncated.  *)
(***************************************************************************)
Magic == "SLM"

\* FileEntryPlain
Plain(filename, term, original_size, compressed_size, mode) ==
    [filename |-> filename, term |-> term, original_size |-> original_size,
     compressed_size |-> compressed_size, mode |-> mode]

EntryItem(blob) == [kind |-> "entry", size |-> ENTRY_SIZE, blob |-> blob]

PayloadItem(blob, csize) ==
    [kind |-> "payload", size |-> AES_NONCE_SIZE + AES_TAG_SIZE + csize, blob |-> blob]

RECURSIVE SumSizes(_, _)
SumSizes(items, n) ==
    IF n = 0 THEN 0 ELSE items[n].size + SumSizes(items, n - 1)

\* offset of item k in the stream
ItemStart(items, k) == HEADER_SIZE + SumSizes(items, k - 1)

FullLength(items) == HEADER_SIZE + SumSizes(items, Len(items))

\* what is read where no sealed blob starts: bytes that open under no key
Garbage == [k |-> NoKey, pt |-> <<>>, len |-> 0, intact |-> FALSE]

\* an all-zero outdir field
Zeros == Garbage

\* fread of n bytes at offset pos: complete iff the stream holds them
\* a read that never comes up short
ReadAlwaysComplete(arch, pos, n) == TRUE

ReadComplete(arch, pos, n) == pos + n <= arch.len

\* the blob whose bytes the n bytes at pos are, when they are one whole item
BlobAt(arch, pos, n, kind) ==
    LET hit == {k \in 1..Len(arch.items) :
                    /\ ItemStart(arch.items, k) = pos
                    /\ arch.items[k].size = n
                    /\ arch.items[k].kind = kind}
    IN  IF hit = {} THEN Garbage ELSE arch.items[CHOOSE k \in hit : TRUE].blob

(***************************************************************************)
(* The writer (section 4.7 of the specification).                          *)
(***************************************************************************)
SignHeader(h, file_key) ==
    [magic |-> h.magic, version |-> h.version, file_count |-> h.file_count,
     salt |-> h.salt, compression_algo |-> h.compression_algo,
     compression_level |-> h.compression_level,
     outdir_len |-> h.outdir_len, outdir |-> h.outdir,
     hmac |-> compute_hmac(file_key, HeaderBytes(h))]

PackHeader(n, password, salt, algo, level, hint) ==
    LET file_key == derive_key(password, salt, "file encryption")
        meta_key == derive_key(password, salt, "metadata encryption")
    IN  SignHeader([magic |-> Magic, version |-> 6, file_count |-> n, salt |-> salt,
                    compression_algo |-> algo, compression_level |-> level,
                    outdir_len |-> Len(hint),
                    outdir |-> IF Len(hint) > 0 THEN Seal(meta_key, hint, Len(hint))
                               ELSE Zeros],
                   file_key)

\* the items written for one input file
PackEntry(f, password, salt, algo, level) ==
    LET file_key == derive_key(password, salt, "file encryption")
        meta_key == derive_key(password, salt, "metadata encryption")
        comp == compress_data(f.data, algo, level)
        csize == IF Len(f.data) = 0 THEN 0 ELSE Len(comp)
        plain == Plain(f.name, TRUE, Len(f.data), csize, f.mode)
    IN  <<EntryItem(Seal(meta_key, plain, PLAIN_SIZE))>>
        \o (IF csize > 0 THEN <<PayloadItem(Seal(file_key, comp, csize), csize)>> ELSE <<>>)

RECURSIVE PackItems(_, _, _, _, _)
PackItems(inputs, password, salt, algo, level) ==
    IF inputs = <<>> THEN <<>>
    ELSE PackEntry(Head(inputs), password, salt, algo, level)
         \o PackItems(Tail(inputs), password, salt, algo, level)

pack(inputs, password, salt, algo, level, hint) ==
    LET items == PackItems(inputs, password, salt, algo, level)
    IN  [header |-> PackHeader(Len(inputs), password, salt, algo, level, hint),
         items |-> items,
         len |-> FullLength(items)]


(***************************************************************************)
(* Archives built entry by entry: a writer who holds the password can seal *)
(* any metadata, a writer who does not seals under some other key.         *)
(***************************************************************************)
OtherKey == [state |-> "foreign"]

\* e: [plain, meta_ok, has_payload, comp, payload_ok]
CraftEntry(e, file_key, meta_key) ==
    LET mblob == Seal(IF e.meta_ok THEN meta_key ELSE OtherKey, e.plain, PLAIN_SIZE)
        pblob == [Seal(file_key, e.comp, Len(e.comp)) EXCEPT !.intact = e.payload_ok]
    IN  <<EntryItem(mblob)>>
        \o (IF e.has_payload THEN <<PayloadItem(pblob, Len(e.comp))>> ELSE <<>>)

RECURSIVE CraftItems(_, _, _)
CraftItems(es, file_key, meta_key) ==
    IF es = <<>> THEN <<>>
    ELSE CraftEntry(Head(es), file_key, meta_key) \o CraftItems(Tail(es), file_key, meta_key)

Craft(es, password, salt, algo, level, hint) ==
    LET items == CraftItems(es, derive_key(password, salt, "file encryption"),
                            derive_key(password, salt, "metadata encryption"))
    IN  [header |-> PackHeader(Len(es), password, salt, algo, level, hint),
         items |-> items,
         len |-> FullLength(items)]


\* a header with any field values, signed by a writer who holds the password
SignedHeader(magic, version, n, password, salt, algo, level, outdir_len, field) ==
    SignHeader([magic |-> magic, version |-> version, file_count |-> n, salt |-> salt,
                compression_algo |-> algo, compression_level |-> level,
                outdir_len |-> outdir_len, outdir |-> field],
               derive_key(password, salt, "file encryption"))

\* x with bit b inverted
FlipBit(x, b) == IF (x \div (2 ^ b)) % 2 = 1 THEN x - 2 ^ b ELSE x + 2 ^ b

\* a 4096-byte outdir field with one bit inverted: a sealed blob no longer
\* opens, a field of zeros is no longer all zeros
FlipField(field) ==
    IF field.intact THEN [field EXCEPT !.intact = FALSE]
    ELSE [field EXCEPT !.k = OtherKey]

\* the header block h with bit t[2] of field t[1] inverted
FlipHeader(h, t) ==
    CASE t[1] = "magic" -> [h EXCEPT !.magic = "SLN"]
      [] t[1] = "version" -> [h EXCEPT !.version = FlipBit(@, t[2])]
      [] t[1] = "file_count" -> [h EXCEPT !.file_count = FlipBit(@, t[2])]
      [] t[1] = "salt" -> [h EXCEPT !.salt = "salt-2"]
      [] t[1] = "compression_algo" -> [h EXCEPT !.compression_algo = FlipBit(@, t[2])]
      [] t[1] = "compression_level" -> [h EXCEPT !.compression_level = FlipBit(@, t[2])]
      [] t[1] = "outdir_len" -> [h EXCEPT !.outdir_len = FlipBit(@, t[2])]
      [] t[1] = "outdir" -> [h EXCEPT !.outdir = FlipField(@)]
      [] t[1] = "hmac" -> [h EXCEPT !.hmac.m.salt = "salt-2"]

\* the archive cut off after n bytes
Truncate(arch, n) == [arch EXCEPT !.len = n]

(***************************************************************************)
(* State.                                                                  *)
(***************************************************************************)
VARIABLES
    op,           \* "extract" or "list": the function that is running
    password,     \* argument
    outdir,       \* argument of extract_files: NULL or Some(path)
    force,        \* argument of extract_files
    archive,      \* the stream behind FILE *in
    packed,       \* NULL, or Some(inputs) when pack wrote the archive and nothing changed it
    flip,         \* NULL, or Some(<<field, bit>>): the header bit changed after writing
    fs0,          \* the file system when the call started
    pc,           \* the statement the call is at
    ret,          \* the value returned, -1 while running
    retLine,      \* the source line of the return statement taken, 0 while running
    pos,          \* the stream position of in
    i,            \* the loop index
    algo,         \* CompressionAlgo algo
    file_key, meta_key,
    extract_dir,  \* NULL or Some(path)
    plain_entry,  \* NULL or Some(FileEntryPlain)
    full_path,    \* NULL or Some(path)
    enc_buf,      \* the payload blob read from the stream
    read_size,    \* size_t read_size of the payload read loop
    comp_buf,     \* the decrypted compressed bytes
    out_buf,      \* the decompressed bytes
    in_open, in_closes,
    out_calls,    \* [opens, closes]: successful fopen of an output file, fclose(out)
    heap,         \* buffer name -> "none", "live" or "freed"
    heapErr,      \* a free of a buffer that was not live, or a live buffer overwritten
    holds,        \* the buffers that hold decrypted data that was not zeroed
    residue,      \* the buffers released while they held decrypted data
    fs,           \* the file system
    printed,      \* the entry lines list_files printed
    errors,       \* int errors of list_files
    hmac_ok,      \* the header HMAC was recomputed and equal to the stored one
    opens,        \* the number of calls of decrypt_aes_gcm so far
    faulted,      \* a library call failed for a reason outside the archive and the file system
    composed,     \* the full paths composed so far: [dir, name, path]
    file_list,    \* collect_files: the slots of *file_list, NULL or Some(path)
    file_count,   \* collect_files: *file_count
    max_files,    \* collect_files: argument
    dirs,         \* collect_files: the directories open, innermost call first
    cf_ret,       \* the value the outermost collect_files returned, -1 before
    pending       \* the paths collect_files is still to be called with

collectVars == <<file_list, file_count, max_files, dirs, cf_ret, pending>>
\* what extract_files and list_files leave alone
callVars == <<op, password, outdir, force, archive, packed, flip, fs0, collectVars>>
keyVars == <<file_key, meta_key>>
bufVars == <<plain_entry, full_path, enc_buf, read_size, comp_buf, out_buf>>
listVars == <<printed, errors>>
vars == <<op, password, outdir, force, archive, packed, flip, fs0, pc, ret, retLine, pos, i,
          algo, file_key, meta_key, extract_dir, plain_entry, full_path, enc_buf, read_size,
          comp_buf, out_buf, in_open, in_closes, out_calls, heap, heapErr, holds,
          residue, fs, printed, errors, hmac_ok, opens, faulted, composed, collectVars>>

Buffers == {"extract_dir", "dec_outdir", "full_path", "enc_buf", "comp_buf", "out_buf"}

(***************************************************************************)
(* The calls explored.                                                     *)
(***************************************************************************)
Str_a == <<"a">>
Str_b == <<"b">>
Str_da == <<"d", "/", "a">>
Str_ab == <<"a", "/", "b">>
Str_o == <<"o">>
Str_dot == <<".">>

WriterPassword == "correct horse"
Passwords == {WriterPassword, "guess"}
Salt == "salt-1"
Algos == {COMPRESSION_ZLIB, COMPRESSION_LZMA}
Levels == 0..9
Modes == {420, 493, 384}
Contents == {<<>>, <<5>>, <<5, 5, 9>>}

FsBare == (Root :> Dir) @@ (Cwd :> Dir)
FsOut == (Append(Cwd, Str_o) :> Dir) @@ FsBare
FsOld == (Append(Cwd, Str_a) :> File(<<1, 2>>, 384)) @@ FsOut
\* the working directory was removed while the process runs in it
FsGone == (Root :> Dir)

SeqsUpTo(S, n) == UNION {[1..k -> S] : k \in 1..n}

InputFile(name, mode, data) == [name |-> name, mode |-> mode, data |-> data]

\* the files of the source tree that pack is run on
SourceFiles ==
    {InputFile(Str_a, 420, <<>>), InputFile(Str_a, 493, <<5, 5, 9>>),
     InputFile(Str_da, 384, <<5>>), InputFile(Str_b, 420, <<5, 5, 9>>),
     InputFile(Str_ab, 420, <<5>>)}


\* hint given to pack, outdir given to extract_files, file system at the start
Env(hint, dir, fsys) == [hint |-> hint, outdir |-> dir, fs |-> fsys]

Envs ==
    {Env(<<>>, NULL, FsBare), Env(<<>>, NULL, FsOld), Env(Str_o, NULL, FsOut),
     Env(Str_o, NULL, FsBare), Env(<<>>, Some(Str_o), FsOld), Env(Str_o, Some(DotDot), FsOut)}

Codecs == {<<COMPRESSION_ZLIB, 0>>, <<COMPRESSION_ZLIB, 6>>, <<COMPRESSION_LZMA, 6>>}

Comp5 == compress_data(<<5>>, COMPRESSION_ZLIB, 6)

Crafted(plain, meta_ok, has_payload, comp, payload_ok) ==
    [plain |-> plain, meta_ok |-> meta_ok, has_payload |-> has_payload,
     comp |-> comp, payload_ok |-> payload_ok]

\* entries a writer can put in an archive, well-formed or not
CraftedEntries ==
    {Crafted(Plain(Str_a, TRUE, 1, Len(Comp5), 420), TRUE, TRUE, Comp5, TRUE),
     Crafted(Plain(Str_b, TRUE, 0, 0, 493), TRUE, FALSE, <<>>, TRUE),
     Crafted(Plain(Str_a, TRUE, 1, Len(Comp5), 420), FALSE, TRUE, Comp5, TRUE),
     Crafted(Plain(Str_a, FALSE, 1, Len(Comp5), 420), TRUE, TRUE, Comp5, TRUE),
     Crafted(Plain(<<".", ".", "/", "a">>, TRUE, 1, Len(Comp5), 420), TRUE, TRUE, Comp5, TRUE),
     Crafted(Plain(Str_a, TRUE, 0, Len(Comp5), 420), TRUE, TRUE, Comp5, TRUE),
     Crafted(Plain(Str_a, TRUE, MAX_FILE_SIZE + 1, Len(Comp5), 420), TRUE, TRUE, Comp5, TRUE),
     Crafted(Plain(Str_a, TRUE, 1, Len(Comp5), 420), TRUE, TRUE, Comp5, FALSE),
     Crafted(Plain(Str_a, TRUE, 2, Len(Comp5), 420), TRUE, TRUE, Comp5, TRUE),
     Crafted(Plain(Str_a, TRUE, 1, 0, 420), TRUE, FALSE, <<>>, TRUE),
     Crafted(Plain(Str_a, TRUE, 1, Len(Comp5) + 5, 420), TRUE, TRUE, Comp5, TRUE)}

Start(o, pw, dir, f, arch, pk, fsys) ==
    /\ op = o /\ password = pw /\ outdir = dir /\ force = f
    /\ archive = arch /\ packed = pk /\ fs0 = fsys /\ fs = fsys
    /\ pc = "start" /\ ret = -1 /\ retLine = 0 /\ pos = 0 /\ i = 0
    /\ algo = COMPRESSION_ZLIB
    /\ file_key = NoKey /\ meta_key = NoKey
    /\ extract_dir = NULL /\ plain_entry = NULL /\ full_path = NULL
    /\ enc_buf = Garbage /\ comp_buf = <<>> /\ out_buf = <<>> /\ read_size = 0
    /\ in_open = FALSE /\ in_closes = 0 /\ out_calls = [opens |-> 0, closes |-> 0]
    /\ heap = [b \in Buffers |-> "none"] /\ heapErr = FALSE
    /\ holds = {} /\ residue = {}
    /\ printed = <<>> /\ errors = 0
    /\ hmac_ok = FALSE /\ opens = 0 /\ faulted = FALSE
    /\ composed = {}

Ops == {"extract", "list"}

\* archives written by pack and read back with the writer's password
InitPacked ==
    \E inputs \in SeqsUpTo(SourceFiles, MaxEntries), c \in Codecs, e \in Envs,
       f \in {0, 1}, o \in Ops :
        Start(o, WriterPassword, e.outdir, f,
              pack(inputs, WriterPassword, Salt, c[1], c[2], e.hint),
              Some(inputs), e.fs)

\* one file of every name, mode and contents under every algorithm and level
InitSingle ==
    \E name \in {Str_a, Str_da}, mode \in Modes, data \in Contents,
       a \in Algos, l \in Levels :
        LET inputs == <<InputFile(name, mode, data)>>
        IN  Start("extract", WriterPassword, NULL, 0,
                  pack(inputs, WriterPassword, Salt, a, l, <<>>), Some(inputs), FsBare)

\* archives read with any password
InitPassword ==
    \E inputs \in SeqsUpTo(SourceFiles, 1), pw \in Passwords, o \in Ops,
       h \in {<<>>, Str_o}, fsys \in {FsOut, FsGone} :
        Start(o, pw, NULL, 1, pack(inputs, WriterPassword, Salt, COMPRESSION_LZMA, 6, h),
              Some(inputs), fsys)

\* archives whose entries are well-formed or not
InitCrafted ==
    \E es \in SeqsUpTo(CraftedEntries, MaxEntries), f \in {0, 1}, o \in Ops,
       fsys \in {FsBare, FsOld} :
        Start(o, WriterPassword, NULL, f,
              Craft(es, WriterPassword, Salt, COMPRESSION_ZLIB, 6, <<>>), NULL, fsys)

\* one entry under every filename
InitNames ==
    \E name \in StringsUpTo(MaxPathLen), o \in Ops :
        Start(o, WriterPassword, NULL, 1,
              Craft(<<Crafted(Plain(name, TRUE, 1, Len(Comp5), 420), TRUE, TRUE, Comp5, TRUE)>>,
                    WriterPassword, Salt, COMPRESSION_ZLIB, 6, <<>>), NULL, FsBare)

\* the header bits inverted: <<field, bit>>
HeaderFlips ==
    {<<"magic", 0>>, <<"version", 0>>, <<"version", 1>>, <<"version", 3>>,
     <<"file_count", 0>>, <<"file_count", 1>>, <<"salt", 0>>,
     <<"compression_algo", 0>>, <<"compression_algo", 1>>, <<"compression_level", 0>>,
     <<"outdir_len", 0>>, <<"outdir_len", 12>>, <<"outdir", 0>>, <<"hmac", 0>>}

\* the header of an archive of n empty files written at version v
HeaderOf(n, v, a, hint) ==
    LET h == PackHeader(n, WriterPassword, Salt, a, 6, hint)
    IN  SignedHeader(h.magic, v, n, WriterPassword, Salt, a, 6, h.outdir_len, h.outdir)

\* an archive of n empty files, n above what is held entry by entry: its
\* header and its length, its entries as bytes that are not looked into
BigArchive(n, v, a, hint) ==
    [header |-> HeaderOf(n, v, a, hint), items |-> <<>>,
     len |-> HEADER_SIZE + n * ENTRY_SIZE]

\* valid archives with one bit of the header inverted
InitFlipped ==
    \E t \in HeaderFlips, v \in {4, 5, 6}, a \in Algos, hint \in {<<>>, Str_o}, o \in Ops :
        \/ \E inputs \in SeqsUpTo(SourceFiles, 1) :
             LET arch == pack(inputs, WriterPassword, Salt, a, 6, hint)
                 valid == [arch EXCEPT !.header = HeaderOf(1, v, a, hint)]
             IN  /\ Start(o, WriterPassword, NULL, 1,
                          [valid EXCEPT !.header = FlipHeader(@, t)], NULL, FsOut)
                 /\ flip = Some(t)
        \/ /\ Start(o, WriterPassword, NULL, 1,
                    [BigArchive(MAX_FILES, v, a, hint)
                        EXCEPT !.header = FlipHeader(@, t)], NULL, FsOut)
           /\ flip = Some(t)

\* headers of any magic, version, file count and algorithm, signed by a
\* writer who holds the password, before one entry
InitHeader ==
    \E magic \in {Magic, "SLN"}, v \in 3..7, n \in {0, 1, MAX_FILES, MAX_FILES + 1},
       a \in {0, 1, 2}, o \in Ops :
        LET arch == Craft(<<Crafted(Plain(Str_a, TRUE, 1, Len(Comp5), 420), TRUE, TRUE,
                                    Comp5, TRUE)>>,
                          WriterPassword, Salt, COMPRESSION_ZLIB, 6, <<>>)
        IN  /\ Start(o, WriterPassword, NULL, 1,
                     [arch EXCEPT !.header =
                         SignedHeader(magic, v, n, WriterPassword, Salt, a, 6, 0, Zeros)],
                     NULL, FsBare)
            /\ flip = NULL

\* outdir fields a writer can put in a header: [len, field]
OutdirFields ==
    LET mk == derive_key(WriterPassword, Salt, "metadata encryption")
    IN  {[len |-> 0, field |-> Zeros],
         [len |-> 1, field |-> Seal(mk, Str_o, 1)],
         [len |-> 1, field |-> Seal(mk, Str_a, 1)],
         [len |-> 1, field |-> Seal(OtherKey, Str_o, 1)],
         [len |-> 1, field |-> FlipField(Seal(mk, Str_o, 1))],
         [len |-> 2, field |-> Seal(mk, DotDot, 2)],
         [len |-> 2, field |-> Seal(mk, Str_o, 1)],
         [len |-> MAX_OUTDIR - AES_NONCE_SIZE - AES_TAG_SIZE,
          field |-> Seal(mk, Str_o, 1)],
         [len |-> MAX_OUTDIR - AES_NONCE_SIZE - AES_TAG_SIZE + 1,
          field |-> Seal(mk, Str_o, 1)]}

\* every outdir argument against every outdir field and file system
InitOutdir ==
    \E dir \in {NULL, Some(Str_o), Some(Str_a), Some(Str_b)}, v \in {5, 6},
       od \in OutdirFields, fsys \in {FsBare, FsOut, FsOld, FsGone}, o \in Ops :
        LET arch == Craft(<<Crafted(Plain(Str_b, TRUE, 0, 0, 493), TRUE, FALSE, <<>>, TRUE)>>,
                          WriterPassword, Salt, COMPRESSION_ZLIB, 6, <<>>)
        IN  /\ Start(o, WriterPassword, dir, 0,
                     [arch EXCEPT !.header =
                         SignedHeader(Magic, v, 1, WriterPassword, Salt, COMPRESSION_ZLIB,
                                      6, od.len, od.field)],
                     NULL, fsys)
            /\ flip = NULL

\* entries of archives that are cut off
CutEntries ==
    {Crafted(Plain(Str_a, TRUE, 1, Len(Comp5), 420), TRUE, TRUE, Comp5, TRUE),
     Crafted(Plain(Str_b, TRUE, 0, 0, 493), TRUE, FALSE, <<>>, TRUE),
     Crafted(Plain(Str_da, TRUE, 1, Len(Comp5), 420), FALSE, TRUE, Comp5, TRUE),
     Crafted(Plain(Str_o, TRUE, 0, Len(Comp5), 420), TRUE, TRUE, Comp5, TRUE)}

\* the lengths an archive of these items is cut to: inside the header, and
\* at the start, inside the nonce, inside the tag, after the tag and one byte
\* before the end of every item
Cuts(items) ==
    {c \in {HEADER_SIZE - 1} \cup
           UNION {{ItemStart(items, k) + d : d \in {0, 11, 27, 28, items[k].size - 1}} :
                  k \in 1..Len(items)} :
        c < FullLength(items)}

\* archives that end early
InitTruncated ==
    \E es \in SeqsUpTo(CutEntries, MaxEntries), o \in Ops :
        LET arch == Craft(es, WriterPassword, Salt, COMPRESSION_ZLIB, 6, <<>>)
        IN  \E c \in Cuts(arch.items) :
              /\ Start(o, WriterPassword, NULL, 0, Truncate(arch, c), NULL, FsBare)
              /\ flip = NULL

\* entries whose sizes are what a writer who holds the password chooses: a
\* payload of a nonce and a tag only, and compressed sizes near the top of
\* uint64_t and at half of it
WideEntries ==
    {Crafted(Plain(Str_a, TRUE, 1, Len(Comp5), 420), TRUE, TRUE, Comp5, TRUE),
     Crafted(Plain(Str_b, TRUE, 0, 0, 493), TRUE, FALSE, <<>>, TRUE),
     Crafted(Plain(Str_o, TRUE, 1, 0, 420), TRUE, TRUE, <<>>, TRUE),
     Crafted(Plain(Str_a, TRUE, 1, WordModulus - 332, 420), TRUE, TRUE, Comp5, TRUE),
     Crafted(Plain(Str_a, TRUE, 0, WordModulus - 332, 420), TRUE, TRUE, Comp5, TRUE),
     Crafted(Plain(Str_a, TRUE, 1, WordModulus - 28, 420), TRUE, TRUE, Comp5, TRUE),
     Crafted(Plain(Str_a, TRUE, 1, WordModulus \div 2, 420), TRUE, TRUE, Comp5, TRUE),
     Crafted(Plain(Str_a, TRUE, 0, WordModulus \div 2, 420), TRUE, TRUE, Comp5, TRUE)}

\* archives of such entries
InitWide ==
    \E es \in SeqsUpTo(WideEntries, MaxEntries), f \in {0, 1}, o \in Ops :
        /\ Start(o, WriterPassword, NULL, f,
                 Craft(es, WriterPassword, Salt, COMPRESSION_ZLIB, 6, <<>>), NULL, FsBare)
        /\ flip = NULL

\* no call of collect_files
CollectIdle ==
    /\ file_list = <<>> /\ file_count = 0 /\ max_files = 0
    /\ dirs = <<>> /\ cf_ret = -1 /\ pending = <<>>

Init ==
    /\ \/ /\ InitPacked \/ InitSingle \/ InitPassword \/ InitCrafted \/ InitNames
          /\ flip = NULL
       \/ InitFlipped \/ InitHeader \/ InitOutdir \/ InitTruncated \/ InitWide
    /\ CollectIdle


(***************************************************************************)
(* Resources.                                                              *)
(***************************************************************************)
Free(h, bs) == [b \in Buffers |-> IF b \in bs THEN "freed" ELSE h[b]]
BadFree(h, bs) == \E b \in bs : h[b] # "live"
Alloc(h, b) == [h EXCEPT ![b] = "live"]
Live(h) == {b \in Buffers : h[b] = "live"}

\* the locals that hold decrypted data and live on the stack of the call
StackSecrets == {"plain_entry"}

\* a return statement at `line` with value rv, after free() of `frees`,
\* fclose(in) and, when `zero`, secure_zero of both keys; h and hd are the heap
\* and the buffers holding decrypted data when the cleanup starts
ReturnFrom(h, hd, line, rv, frees, zero) ==
    /\ pc' = "done" /\ ret' = rv /\ retLine' = line
    /\ heap' = Free(h, frees)
    /\ heapErr' = (heapErr \/ BadFree(h, frees))
    /\ residue' = residue \cup (hd \cap (frees \cup StackSecrets))
    /\ holds' = hd \ (frees \cup StackSecrets)
    /\ file_key' = (IF zero THEN ZeroKey ELSE file_key)
    /\ meta_key' = (IF zero THEN ZeroKey ELSE meta_key)
    /\ in_open' = FALSE /\ in_closes' = in_closes + 1

Return(line, rv, frees, zero) == ReturnFrom(heap, holds, line, rv, frees, zero)

\* fopen(full_path, "wb") returned a handle and fclose(out) was called on it
OpenedAndClosed(c) == [opens |-> c.opens + 1, closes |-> c.closes + 1]

\* the call goes on to statement `next`
Goto(next) == pc' = next /\ UNCHANGED <<ret, retLine>>

resVars == <<heap, heapErr, holds, residue, in_open, in_closes>>
restVars == <<pos, i, algo, extract_dir, bufVars, out_calls, fs, listVars, hmac_ok,
              opens, composed>>

Header == archive.header

(***************************************************************************)
(* extract_files, extract.c lines 22-387.                                  *)
(***************************************************************************)
\* lines 23-37: open the archive, read the header block
X_Open ==
    /\ op = "extract" /\ pc = "start"
    /\ \/ /\ pc' = "done" /\ ret' = 1 /\ retLine' = 30
          /\ faulted' = TRUE
          /\ UNCHANGED <<callVars, keyVars, resVars, restVars>>
       \/ /\ ~ReadComplete(archive, 0, HEADER_SIZE)
          /\ pc' = "done" /\ ret' = 1 /\ retLine' = 36
          /\ in_closes' = in_closes + 1
          /\ UNCHANGED <<callVars, keyVars, heap, heapErr, holds, residue, in_open,
                         restVars, faulted>>
       \/ /\ ReadComplete(archive, 0, HEADER_SIZE)
          /\ Goto("validate")
          /\ in_open' = TRUE /\ pos' = HEADER_SIZE
          /\ UNCHANGED <<callVars, keyVars, heap, heapErr, holds, residue, in_closes,
                         i, algo, extract_dir, bufVars, out_calls, fs, listVars,
                         hmac_ok, opens, composed, faulted>>

\* a validation that leaves the file count out
X_HeaderValidNoCount ==
    /\ Header.magic = Magic
    /\ Header.version >= 4 /\ Header.version <= 6
    /\ Header.version = 4 \/ Header.compression_algo \in {COMPRESSION_ZLIB, COMPRESSION_LZMA}

\* lines 39-58: magic, version, compression algorithm, file count
X_HeaderValid ==
    /\ Header.magic = Magic
    /\ Header.version >= 4 /\ Header.version <= 6
    /\ Header.version = 4 \/ Header.compression_algo \in {COMPRESSION_ZLIB, COMPRESSION_LZMA}
    /\ Header.file_count <= MAX_FILES

X_Validate ==
    /\ op = "extract" /\ pc = "validate"
    /\ IF X_HeaderValid
       THEN /\ Goto("derive")
            /\ algo' = (IF Header.version = 4 THEN COMPRESSION_LZMA
                        ELSE Header.compression_algo)
            /\ UNCHANGED <<callVars, keyVars, resVars, pos, i, extract_dir, bufVars,
                           out_calls, fs, listVars, hmac_ok, opens, composed, faulted>>
       ELSE /\ Return(IF Header.magic # Magic \/ Header.version < 4 \/ Header.version > 6
                      THEN 42
                      ELSE IF Header.version # 4 /\ Header.compression_algo
                                  \notin {COMPRESSION_ZLIB, COMPRESSION_LZMA}
                           THEN 51 ELSE 57,
                      1, {}, FALSE)
            /\ UNCHANGED <<callVars, restVars, faulted>>

\* lines 61-67: derive file_key, then meta_key; a failed derive_key leaves its
\* buffer as it was, and the second is not called when the first failed
X_DeriveKeys ==
    /\ op = "extract" /\ pc = "derive"
    /\ \/ /\ Goto("hmac")
          /\ file_key' = derive_key(password, Header.salt, "file encryption")
          /\ meta_key' = derive_key(password, Header.salt, "metadata encryption")
          /\ UNCHANGED <<callVars, resVars, restVars, faulted>>
       \/ \E first_ok \in BOOLEAN :
            /\ pc' = "done" /\ ret' = 1 /\ retLine' = 66
            /\ file_key' = (IF first_ok
                            THEN derive_key(password, Header.salt, "file encryption")
                            ELSE file_key)
            /\ in_open' = FALSE /\ in_closes' = in_closes + 1
            /\ faulted' = TRUE
            /\ UNCHANGED <<callVars, meta_key, heap, heapErr, holds, residue, restVars>>

\* lines 69-84: recompute the header HMAC under file_key and compare
X_VerifyHmac ==
    /\ op = "extract" /\ pc = "hmac"
    /\ \/ /\ Return(75, 1, {}, TRUE)
          /\ faulted' = TRUE
          /\ UNCHANGED <<callVars, restVars>>
       \/ /\ compute_hmac(file_key, HeaderBytes(Header)) # Header.hmac
          /\ Return(82, 1, {}, TRUE)
          /\ UNCHANGED <<callVars, restVars, faulted>>
       \/ /\ compute_hmac(file_key, HeaderBytes(Header)) = Header.hmac
          /\ Goto("outdir")
          /\ hmac_ok' = TRUE
          /\ UNCHANGED <<callVars, keyVars, resVars, pos, i, algo, extract_dir, bufVars,
                         out_calls, fs, listVars, opens, composed, faulted>>


\* the outdir ciphertext as extract_files cuts it out of the header field:
\* outdir_len bytes, then the nonce, then the tag
\* a bound that leaves the tag out
OutdirTooLongNoTag(len) == len > MAX_OUTDIR - AES_NONCE_SIZE

\* line 96: the ciphertext, the nonce and the tag do not fit the outdir field
OutdirTooLong(len) == len > MAX_OUTDIR - AES_NONCE_SIZE - AES_TAG_SIZE

OutdirBlob(h) == IF h.outdir.len = h.outdir_len THEN h.outdir ELSE Garbage

\* lines 85-150: the extraction directory
X_ResolveOutdir ==
    /\ op = "extract" /\ pc = "outdir"
    /\ IF outdir # NULL
       THEN \/ /\ Return(93, 1, {}, TRUE)
               /\ faulted' = TRUE
               /\ UNCHANGED <<callVars, restVars>>
            \/ /\ Goto("checkdir")
               /\ extract_dir' = outdir
               /\ heap' = Alloc(heap, "extract_dir")
               /\ UNCHANGED <<callVars, keyVars, heapErr, holds, residue, in_open,
                              in_closes, pos, i, algo, bufVars, out_calls, fs, listVars,
                              hmac_ok, opens, composed, faulted>>
       ELSE IF Header.version >= 6 /\ Header.outdir_len > 0
       THEN IF OutdirTooLong(Header.outdir_len)
            THEN /\ Return(101, 1, {}, TRUE)
                 /\ UNCHANGED <<callVars, restVars, faulted>>
            ELSE \/ /\ Return(109, 1, {}, TRUE)
                    /\ faulted' = TRUE
                    /\ UNCHANGED <<callVars, restVars>>
                 \/ LET dec == decrypt_aes_gcm(meta_key, OutdirBlob(Header))
                    IN  /\ opens' = opens + 1
                        /\ IF dec.rc # 0
                           THEN /\ ReturnFrom(Alloc(heap, "dec_outdir"), holds, 121, 1,
                                              {"dec_outdir"}, TRUE)
                                /\ UNCHANGED <<callVars, pos, i, algo, extract_dir, bufVars,
                                               out_calls, fs, listVars, hmac_ok, composed,
                                               faulted>>
                           ELSE IF dec.len # Header.outdir_len
                           THEN /\ ReturnFrom(Alloc(heap, "dec_outdir"), holds, 129, 1,
                                              {"dec_outdir"}, TRUE)
                                /\ UNCHANGED <<callVars, pos, i, algo, extract_dir, bufVars,
                                               out_calls, fs, listVars, hmac_ok, composed,
                                               faulted>>
                           ELSE IF has_path_traversal(dec.pt) # 0
                           THEN /\ ReturnFrom(Alloc(heap, "dec_outdir"), holds, 138, 1,
                                              {"dec_outdir"}, TRUE)
                                /\ UNCHANGED <<callVars, pos, i, algo, extract_dir, bufVars,
                                               out_calls, fs, listVars, hmac_ok, composed,
                                               faulted>>
                           ELSE /\ Goto("checkdir")
                                /\ extract_dir' = Some(dec.pt)
                                /\ heap' = Alloc(heap, "extract_dir")
                                /\ UNCHANGED <<callVars, keyVars, heapErr, holds, residue,
                                               in_open, in_closes, pos, i, algo, bufVars,
                                               out_calls, fs, listVars, hmac_ok, composed,
                                               faulted>>
       ELSE \/ /\ Return(148, 1, {}, TRUE)
               /\ faulted' = TRUE
               /\ UNCHANGED <<callVars, restVars>>
            \/ /\ Goto("checkdir")
               /\ extract_dir' = Some(Str_dot)
               /\ heap' = Alloc(heap, "extract_dir")
               /\ UNCHANGED <<callVars, keyVars, heapErr, holds, residue, in_open,
                              in_closes, pos, i, algo, bufVars, out_calls, fs, listVars,
                              hmac_ok, opens, composed, faulted>>

\* lines 151-172: fall back to "." when the directory is not there
X_CheckDir ==
    /\ op = "extract" /\ pc = "checkdir"
    /\ IF stat_isdir(fs, extract_dir[1])
       THEN /\ Goto("loop")
            /\ UNCHANGED <<callVars, keyVars, resVars, restVars, faulted>>
       ELSE \/ /\ ReturnFrom(Free(heap, {"extract_dir"}), holds, 161, 1, {}, TRUE)
               /\ faulted' = TRUE
               /\ extract_dir' = NULL
               /\ UNCHANGED <<callVars, pos, i, algo, bufVars, out_calls, fs, listVars,
                              hmac_ok, opens, composed>>
            \/ /\ stat_isdir(fs, Str_dot)
               /\ Goto("loop")
               /\ extract_dir' = Some(Str_dot)
               /\ heapErr' = (heapErr \/ BadFree(heap, {"extract_dir"}))
               /\ UNCHANGED <<callVars, keyVars, heap, holds, residue, in_open, in_closes,
                              pos, i, algo, bufVars, out_calls, fs, listVars, hmac_ok,
                              opens, composed, faulted>>
            \/ /\ ~stat_isdir(fs, Str_dot)
               /\ Return(169, 1, {"extract_dir"}, TRUE)
               /\ extract_dir' = Some(Str_dot)
               /\ UNCHANGED <<callVars, pos, i, algo, bufVars, out_calls, fs, listVars,
                              hmac_ok, opens, composed, faulted>>


\* a validation that leaves out the bound of original_size
InvalidMetadataNoMax(dec) ==
    \/ dec.len # PLAIN_SIZE
    \/ ~dec.pt.term
    \/ has_path_traversal(dec.pt.filename) # 0
    \/ (dec.pt.compressed_size > 0 /\ dec.pt.original_size = 0)

\* a validation that leaves out the relation between the two sizes
InvalidMetadataNoSizeRule(dec) ==
    \/ dec.len # PLAIN_SIZE
    \/ ~dec.pt.term
    \/ has_path_traversal(dec.pt.filename) # 0
    \/ dec.pt.original_size > MAX_FILE_SIZE

\* extract.c lines 193-195 and list.c lines 128-130: the metadata is refused
InvalidMetadata(dec) ==
    \/ dec.len # PLAIN_SIZE
    \/ ~dec.pt.term
    \/ has_path_traversal(dec.pt.filename) # 0
    \/ (dec.pt.compressed_size > 0 /\ dec.pt.original_size = 0)
    \/ dec.pt.original_size > MAX_FILE_SIZE

\* a join that leaves out the separator
JoinPathNoSlash(dir, name) == dir \o name

\* snprintf(full_path, full_path_len, "%s/%s", extract_dir, filename)
JoinPath(dir, name) == dir \o <<"/">> \o name

Entry == plain_entry[1]
Path == full_path[1]

\* lines 173-202: read FileEntry i, open its metadata under meta_key, validate it
X_Entry ==
    /\ op = "extract" /\ pc = "loop" /\ i < Header.file_count
    /\ IF ~ReadComplete(archive, pos, ENTRY_SIZE)
       THEN /\ Return(181, 1, {"extract_dir"}, TRUE)
            /\ UNCHANGED <<callVars, restVars, faulted>>
       ELSE LET dec == decrypt_aes_gcm(meta_key, BlobAt(archive, pos, ENTRY_SIZE, "entry"))
            IN  /\ opens' = opens + 1
                /\ pos' = pos + ENTRY_SIZE
                /\ IF dec.rc # 0
                   THEN /\ Return(191, 1, {"extract_dir"}, TRUE)
                        /\ UNCHANGED <<callVars, i, algo, extract_dir, bufVars, out_calls,
                                       fs, listVars, hmac_ok, composed, faulted>>
                   ELSE IF InvalidMetadata(dec)
                   THEN /\ ReturnFrom(heap, holds \cup {"plain_entry"}, 201, 1,
                                      {"extract_dir"}, TRUE)
                        /\ plain_entry' = Some(dec.pt)
                        /\ UNCHANGED <<callVars, i, algo, extract_dir, full_path, enc_buf, read_size,
                                       comp_buf, out_buf, out_calls, fs, listVars, hmac_ok,
                                       composed, faulted>>
                   ELSE /\ Goto("path")
                        /\ plain_entry' = Some(dec.pt)
                        /\ holds' = holds \cup {"plain_entry"}
                        /\ UNCHANGED <<callVars, keyVars, heap, heapErr, residue, in_open,
                                       in_closes, i, algo, extract_dir, full_path, enc_buf, read_size,
                                       comp_buf, out_buf, out_calls, fs, listVars, hmac_ok,
                                       composed, faulted>>

\* lines 203-222: compose full_path; refuse an existing path unless force
X_ComposePath ==
    /\ op = "extract" /\ pc = "path"
    /\ \/ /\ Return(211, 1, {"extract_dir"}, TRUE)
          /\ faulted' = TRUE
          /\ UNCHANGED <<callVars, restVars>>
       \/ LET p == JoinPath(extract_dir[1], Entry.filename)
          IN  /\ full_path' = Some(p)
              /\ composed' = composed \cup
                     {[dir |-> extract_dir[1], name |-> Entry.filename, path |-> p]}
              /\ IF force = 0 /\ access_ok(fs, p)
                 THEN /\ ReturnFrom(Alloc(heap, "full_path"), holds, 221, 1,
                                    {"full_path", "extract_dir"}, TRUE)
                      /\ UNCHANGED <<callVars, pos, i, algo, extract_dir, plain_entry,
                                     enc_buf, read_size, comp_buf, out_buf, out_calls, fs, listVars,
                                     hmac_ok, opens, faulted>>
                 ELSE /\ Goto("parents")
                      /\ heap' = Alloc(heap, "full_path")
                      /\ heapErr' = (heapErr \/ heap["full_path"] = "live")
                      /\ UNCHANGED <<callVars, keyVars, holds, residue, in_open, in_closes,
                                     pos, i, algo, extract_dir, plain_entry, enc_buf, read_size,
                                     comp_buf, out_buf, out_calls, fs, listVars, hmac_ok,
                                     opens, faulted>>

\* lines 223-230: create_parent_dirs(full_path)
X_CreateParents ==
    /\ op = "extract" /\ pc = "parents"
    /\ \/ /\ Return(229, 1, {"full_path", "extract_dir"}, TRUE)
          /\ faulted' = TRUE
          /\ UNCHANGED <<callVars, restVars>>
       \/ LET made == create_parent_dirs(fs, Path)
          IN  /\ fs' = made.fs
              /\ IF made.rc # 0
                 THEN /\ Return(229, 1, {"full_path", "extract_dir"}, TRUE)
                      /\ UNCHANGED <<callVars, pos, i, algo, extract_dir, bufVars, out_calls,
                                     listVars, hmac_ok, opens, composed, faulted>>
                 ELSE /\ Goto("body")
                      /\ UNCHANGED <<callVars, keyVars, resVars, pos, i, algo, extract_dir,
                                     bufVars, out_calls, listVars, hmac_ok, opens, composed,
                                     faulted>>

\* the end of one iteration: the locals of the loop body go out of scope
EndIteration(h, frees) ==
    /\ Goto("loop")
    /\ i' = i + 1
    /\ heap' = Free(h, frees)
    /\ heapErr' = (heapErr \/ BadFree(h, frees))
    /\ residue' = residue \cup (holds \cap (frees \cup StackSecrets))
    /\ holds' = holds \ (frees \cup StackSecrets)
    /\ plain_entry' = NULL /\ full_path' = NULL
    /\ enc_buf' = Garbage /\ comp_buf' = <<>> /\ out_buf' = <<>> /\ read_size' = 0

\* lines 231-254: an entry of original_size 0
X_EmptyFile ==
    /\ op = "extract" /\ pc = "body" /\ Entry.original_size = 0
    /\ \/ /\ Return(241, 1, {"full_path", "extract_dir"}, TRUE)
          /\ faulted' = TRUE
          /\ UNCHANGED <<callVars, restVars>>
       \/ /\ ~fopen_wb_ok(fs, Path)
          /\ Return(241, 1, {"full_path", "extract_dir"}, TRUE)
          /\ UNCHANGED <<callVars, restVars, faulted>>
       \/ /\ fopen_wb_ok(fs, Path)
          /\ \E chmod_ok \in BOOLEAN :
               /\ fs' = (IF chmod_ok
                         THEN Chmod(WriteFile(fs, Path, <<>>), Path, Entry.mode)
                         ELSE WriteFile(fs, Path, <<>>))
               /\ faulted' = (faulted \/ ~chmod_ok)
          /\ out_calls' = OpenedAndClosed(out_calls)
          /\ EndIteration(heap, {"full_path"})
          /\ UNCHANGED <<callVars, keyVars, in_open, in_closes, pos, algo, extract_dir,
                         listVars, hmac_ok, opens, composed>>


PayloadSize(csize) == AES_NONCE_SIZE + AES_TAG_SIZE + csize

\* lines 255-276: read the nonce and the tag, allocate enc_buf
X_ReadPayload ==
    /\ op = "extract" /\ pc = "body" /\ Entry.original_size # 0
    /\ IF ~ReadComplete(archive, pos, AES_NONCE_SIZE + AES_TAG_SIZE)
       THEN /\ Return(264, 1, {"full_path", "extract_dir"}, TRUE)
            /\ UNCHANGED <<callVars, restVars, faulted>>
       ELSE \/ /\ Return(274, 1, {"full_path", "extract_dir"}, TRUE)
               /\ faulted' = TRUE
               /\ UNCHANGED <<callVars, restVars>>
            \/ /\ Goto("read")
               /\ read_size' = 0
               /\ pos' = pos + AES_NONCE_SIZE + AES_TAG_SIZE
               /\ heap' = Alloc(heap, "enc_buf")
               /\ heapErr' = (heapErr \/ heap["enc_buf"] = "live")
               /\ UNCHANGED <<callVars, keyVars, holds, residue, in_open, in_closes, i, algo,
                              extract_dir, plain_entry, full_path, enc_buf, comp_buf,
                              out_buf, out_calls, fs, listVars, hmac_ok, opens, composed,
                              faulted>>

\* a loop that goes on after a read of no bytes
ZeroReadIgnored(chunk) == FALSE

\* line 279: if (chunk == 0)
ZeroRead(chunk) == chunk = 0

\* the bytes the stream holds for a read of `want` bytes at pos
Available(arch, p, want) ==
    IF ReadComplete(arch, p, want) THEN want
    ELSE IF p < arch.len THEN arch.len - p ELSE 0

\* the values fread can return for that read: all that is available, or on a
\* read error nothing or a single byte
fread_counts(arch, p, want) ==
    {Available(arch, p, want)} \cup {c \in {0, 1} : c < Available(arch, p, want)}

\* lines 277-290: one test of the condition of the read loop, and one pass
\* through its body
X_ReadChunk ==
    /\ op = "extract" /\ pc = "read"
    /\ IF read_size >= Entry.compressed_size
       THEN /\ Goto("decrypt")
            /\ enc_buf' = BlobAt(archive, pos - PayloadSize(Entry.compressed_size),
                                 PayloadSize(Entry.compressed_size), "payload")
            /\ UNCHANGED <<callVars, keyVars, resVars, pos, i, algo, extract_dir,
                           plain_entry, full_path, read_size, comp_buf, out_buf,
                           out_calls, fs, listVars, hmac_ok, opens, composed, faulted>>
       ELSE \E chunk \in fread_counts(archive, pos, Entry.compressed_size - read_size) :
              /\ faulted' = (faulted \/ chunk < Available(archive, pos,
                                                   Entry.compressed_size - read_size))
              /\ IF ZeroRead(chunk)
                 THEN /\ Return(287, 1, {"enc_buf", "full_path", "extract_dir"}, TRUE)
                      /\ UNCHANGED <<callVars, restVars>>
                 ELSE /\ read_size' = read_size + chunk
                      /\ pos' = pos + chunk
                      /\ UNCHANGED <<callVars, keyVars, resVars, pc, ret, retLine, i, algo,
                                     extract_dir, plain_entry, full_path, enc_buf,
                                     comp_buf, out_buf, out_calls, fs, listVars, hmac_ok,
                                     opens, composed>>

\* lines 291-313: open the payload under file_key
X_DecryptPayload ==
    /\ op = "extract" /\ pc = "decrypt"
    /\ \/ /\ Return(300, 1, {"enc_buf", "full_path", "extract_dir"}, TRUE)
          /\ faulted' = TRUE
          /\ UNCHANGED <<callVars, restVars>>
       \/ LET dec == decrypt_aes_gcm(file_key, enc_buf)
          IN  /\ opens' = opens + 1
              /\ IF dec.rc # 0
                 THEN /\ ReturnFrom(Alloc(heap, "comp_buf"), holds, 311, 1,
                                    {"enc_buf", "comp_buf", "full_path", "extract_dir"}, TRUE)
                      /\ UNCHANGED <<callVars, pos, i, algo, extract_dir, bufVars, out_calls,
                                     fs, listVars, hmac_ok, composed, faulted>>
                 ELSE /\ Goto("decompress")
                      /\ comp_buf' = dec.pt
                      /\ heap' = Alloc(heap, "comp_buf")
                      /\ heapErr' = (heapErr \/ heap["comp_buf"] = "live")
                      /\ holds' = holds \cup {"comp_buf"}
                      /\ UNCHANGED <<callVars, keyVars, residue, in_open, in_closes, pos, i,
                                     algo, extract_dir, plain_entry, full_path, enc_buf, read_size,
                                     out_buf, out_calls, fs, listVars, hmac_ok, composed,
                                     faulted>>

\* a cleanup that forgets comp_buf
AllPayloadBufsNoComp == {"enc_buf", "out_buf", "full_path", "extract_dir"}

\* lines 330-334, 344-348, 356-361: the buffers freed on a failure after out_buf
\* was allocated
AllPayloadBufs == {"enc_buf", "comp_buf", "out_buf", "full_path", "extract_dir"}

\* lines 376-379: the buffers freed at the end of an iteration
EntryBufs == {"enc_buf", "comp_buf", "out_buf", "full_path"}

\* a length test that lets a shorter output through
DecompressedOkLax(out, original_size) == Len(out) <= original_size

\* line 327: the decompressed length is the one the metadata announced
DecompressedOk(out, original_size) == Len(out) = original_size

\* lines 314-340: decompress into a buffer of original_size bytes
X_Decompress ==
    /\ op = "extract" /\ pc = "decompress"
    /\ \/ /\ Return(324, 1, {"enc_buf", "comp_buf", "full_path", "extract_dir"}, TRUE)
          /\ faulted' = TRUE
          /\ UNCHANGED <<callVars, restVars>>
       \/ LET out == decompress_data(comp_buf, Entry.original_size, algo)
          IN  /\ out_buf' = out
              /\ IF ~DecompressedOk(out, Entry.original_size)
                 THEN /\ ReturnFrom(Alloc(heap, "out_buf"),
                                    IF out = <<>> THEN holds ELSE holds \cup {"out_buf"},
                                    338, 1, AllPayloadBufs, TRUE)
                      /\ UNCHANGED <<callVars, pos, i, algo, extract_dir, plain_entry,
                                     full_path, enc_buf, read_size, comp_buf, out_calls, fs, listVars,
                                     hmac_ok, opens, composed, faulted>>
                 ELSE /\ Goto("write")
                      /\ heap' = Alloc(heap, "out_buf")
                      /\ heapErr' = (heapErr \/ heap["out_buf"] = "live")
                      /\ holds' = holds \cup {"out_buf"}
                      /\ UNCHANGED <<callVars, keyVars, residue, in_open, in_closes, pos, i,
                                     algo, extract_dir, plain_entry, full_path, enc_buf, read_size,
                                     comp_buf, out_calls, fs, listVars, hmac_ok, opens,
                                     composed, faulted>>

\* a failed write that removes every file under the working directory
FailedWriteCleansUp(fsys, path, data, written) ==
    [key \in {k \in DOMAIN fsys : fsys[k].kind = "dir"} |-> fsys[key]]

\* lines 341-365: fopen truncates the file, fwrite stops after `written` bytes
FailedWrite(fsys, path, data, written) == WriteFile(fsys, path, SubSeq(data, 1, written))

\* lines 341-380: write the file, set its mode, free the buffers of the entry
X_WriteFile ==
    /\ op = "extract" /\ pc = "write"
    /\ \/ /\ Return(352, 1, AllPayloadBufs, TRUE)
          /\ faulted' = TRUE
          /\ UNCHANGED <<callVars, restVars>>
       \/ /\ ~fopen_wb_ok(fs, Path)
          /\ Return(352, 1, AllPayloadBufs, TRUE)
          /\ UNCHANGED <<callVars, restVars, faulted>>
       \/ /\ fopen_wb_ok(fs, Path)
          /\ \E written \in 0..(Len(out_buf) - 1) :
               fs' = FailedWrite(fs, Path, out_buf, written)
          /\ out_calls' = OpenedAndClosed(out_calls)
          /\ Return(365, 1, AllPayloadBufs, TRUE)
          /\ faulted' = TRUE
          /\ UNCHANGED <<callVars, pos, i, algo, extract_dir, bufVars, listVars,
                         hmac_ok, opens, composed>>
       \/ /\ fopen_wb_ok(fs, Path)
          /\ \E chmod_ok \in BOOLEAN :
               /\ fs' = (IF chmod_ok
                         THEN Chmod(WriteFile(fs, Path, out_buf), Path, Entry.mode)
                         ELSE WriteFile(fs, Path, out_buf))
               /\ faulted' = (faulted \/ ~chmod_ok)
          /\ out_calls' = OpenedAndClosed(out_calls)
          /\ EndIteration(heap, EntryBufs)
          /\ UNCHANGED <<callVars, keyVars, in_open, in_closes, pos, algo, extract_dir,
                         listVars, hmac_ok, opens, composed>>

\* lines 381-386: all entries done
X_Finish ==
    /\ op = "extract" /\ pc = "loop" /\ i >= Header.file_count
    /\ Return(386, 0, {"extract_dir"}, TRUE)
    /\ UNCHANGED <<callVars, restVars, faulted>>

NextExtract ==
    \/ X_Open \/ X_Validate \/ X_DeriveKeys \/ X_VerifyHmac \/ X_ResolveOutdir
    \/ X_CheckDir \/ X_Entry \/ X_ComposePath \/ X_CreateParents \/ X_EmptyFile
    \/ X_ReadPayload \/ X_ReadChunk \/ X_DecryptPayload \/ X_Decompress \/ X_WriteFile
    \/ X_Finish

(***************************************************************************)
(* list_files, list.c lines 20-181.                                        *)
(***************************************************************************)
Bit(mode, k) == (mode \div (2 ^ k)) % 2 = 1

\* S_ISDIR(mode): (mode & S_IFMT) == S_IFDIR
S_ISDIR(mode) == (mode \div 4096) % 16 = 4

\* utils.c mode_to_string
mode_to_string(mode) ==
    << IF S_ISDIR(mode) THEN "d" ELSE "-",
       IF Bit(mode, 8) THEN "r" ELSE "-",
       IF Bit(mode, 7) THEN "w" ELSE "-",
       IF Bit(mode, 6) THEN "x" ELSE "-",
       IF Bit(mode, 5) THEN "r" ELSE "-",
       IF Bit(mode, 4) THEN "w" ELSE "-",
       IF Bit(mode, 3) THEN "x" ELSE "-",
       IF Bit(mode, 2) THEN "r" ELSE "-",
       IF Bit(mode, 1) THEN "w" ELSE "-",
       IF Bit(mode, 0) THEN "x" ELSE "-" >>

\* the offset handed to fseek(in, compressed_size + 12 + 16, SEEK_CUR): the
\* sum is taken in uint64_t and converted to long
SkipOffset(csize) == ToLong((csize + AES_NONCE_SIZE + AES_TAG_SIZE) % WordModulus)

\* fseek(in, off, SEEK_CUR) == 0 at position p: a target before the start of
\* the file is refused, a target past its end is not
fseek_ok(p, off) == p + off >= 0

\* lines 21-36
L_Open ==
    /\ op = "list" /\ pc = "start"
    /\ \/ /\ pc' = "done" /\ ret' = 1 /\ retLine' = 28
          /\ faulted' = TRUE
          /\ UNCHANGED <<callVars, keyVars, resVars, restVars>>
       \/ /\ ~ReadComplete(archive, 0, HEADER_SIZE)
          /\ pc' = "done" /\ ret' = 1 /\ retLine' = 35
          /\ in_closes' = in_closes + 1
          /\ UNCHANGED <<callVars, keyVars, heap, heapErr, holds, residue, in_open,
                         restVars, faulted>>
       \/ /\ ReadComplete(archive, 0, HEADER_SIZE)
          /\ Goto("validate")
          /\ in_open' = TRUE /\ pos' = HEADER_SIZE
          /\ UNCHANGED <<callVars, keyVars, heap, heapErr, holds, residue, in_closes,
                         i, algo, extract_dir, bufVars, out_calls, fs, listVars,
                         hmac_ok, opens, composed, faulted>>

\* lines 37-46: magic, version, file count
L_HeaderValid ==
    /\ Header.magic = Magic
    /\ Header.version >= 4 /\ Header.version <= 6
    /\ Header.file_count <= MAX_FILES

L_Validate ==
    /\ op = "list" /\ pc = "validate"
    /\ IF L_HeaderValid
       THEN /\ Goto("derive")
            /\ UNCHANGED <<callVars, keyVars, resVars, restVars, faulted>>
       ELSE /\ Return(IF Header.file_count <= MAX_FILES THEN 40
                      ELSE IF Header.magic = Magic /\ Header.version >= 4
                              /\ Header.version <= 6 THEN 45 ELSE 40,
                      1, {}, FALSE)
            /\ UNCHANGED <<callVars, restVars, faulted>>

\* lines 49-59: both key buffers are zeroed when a derive_key fails
L_DeriveKeys ==
    /\ op = "list" /\ pc = "derive"
    /\ \/ /\ Goto("hmac")
          /\ file_key' = derive_key(password, Header.salt, "file encryption")
          /\ meta_key' = derive_key(password, Header.salt, "metadata encryption")
          /\ UNCHANGED <<callVars, resVars, restVars, faulted>>
       \/ /\ Return(58, 1, {}, TRUE)
          /\ faulted' = TRUE
          /\ UNCHANGED <<callVars, restVars>>

\* lines 61-79
L_VerifyHmac ==
    /\ op = "list" /\ pc = "hmac"
    /\ \/ /\ Return(67, 1, {}, TRUE)
          /\ faulted' = TRUE
          /\ UNCHANGED <<callVars, restVars>>
       \/ /\ compute_hmac(file_key, HeaderBytes(Header)) # Header.hmac
          /\ Return(74, 1, {}, TRUE)
          /\ UNCHANGED <<callVars, restVars, faulted>>
       \/ /\ compute_hmac(file_key, HeaderBytes(Header)) = Header.hmac
          /\ Goto("loop")
          /\ hmac_ok' = TRUE
          /\ UNCHANGED <<callVars, keyVars, resVars, pos, i, algo, extract_dir, bufVars,
                         out_calls, fs, listVars, opens, composed, faulted>>

\* lines 81-151: read FileEntry i, open its metadata, validate it
L_Entry ==
    /\ op = "list" /\ pc = "loop" /\ i < Header.file_count
    /\ \/ \* ftell fails
          /\ Return(88, 1, {}, TRUE)
          /\ faulted' = TRUE
          /\ UNCHANGED <<callVars, restVars>>
       \/ /\ ~ReadComplete(archive, pos, ENTRY_SIZE)
          /\ Return(99, 1, {}, TRUE)
          /\ UNCHANGED <<callVars, restVars, faulted>>
       \/ /\ ReadComplete(archive, pos, ENTRY_SIZE)
          /\ LET dec == decrypt_aes_gcm(meta_key, BlobAt(archive, pos, ENTRY_SIZE, "entry"))
                 after == pos + ENTRY_SIZE
             IN  /\ opens' = opens + 1
                 /\ IF dec.rc # 0
                    THEN \* lines 106-126
                         /\ errors' = errors + 1
                         /\ IF ReadComplete(archive, after, AES_NONCE_SIZE + AES_TAG_SIZE)
                            THEN /\ \E ftell_ok \in BOOLEAN :
                                      /\ Return(IF ftell_ok THEN 123 ELSE 114, 1, {}, TRUE)
                                      /\ faulted' = (faulted \/ ~ftell_ok)
                                      /\ pos' = (IF ftell_ok
                                                 THEN after + AES_NONCE_SIZE + AES_TAG_SIZE
                                                 ELSE after)
                                 /\ UNCHANGED <<callVars, i, algo, extract_dir, bufVars,
                                                out_calls, fs, printed, hmac_ok, composed>>
                            ELSE \/ /\ Return(114, 1, {}, TRUE)
                                    /\ faulted' = TRUE
                                    /\ pos' = after
                                    /\ UNCHANGED <<callVars, i, algo, extract_dir, bufVars,
                                                   out_calls, fs, printed, hmac_ok,
                                                   composed>>
                                 \/ /\ Goto("loop")
                                    /\ i' = i + 1
                                    /\ pos' = after
                                    /\ UNCHANGED <<callVars, keyVars, resVars, algo,
                                                   extract_dir, bufVars, out_calls, fs,
                                                   printed, hmac_ok, composed, faulted>>
                    ELSE IF InvalidMetadata(dec)
                    THEN \* lines 131-150
                         /\ errors' = errors + 1
                         /\ \/ \* ftell (line 140) or fseek (line 147) fails
                               /\ dec.pt.compressed_size > 0
                               /\ \E line \in {140, 147} :
                                    ReturnFrom(heap, holds \cup {"plain_entry"}, line, 1,
                                               {}, TRUE)
                               /\ faulted' = TRUE
                               /\ pos' = after
                               /\ UNCHANGED <<callVars, i, algo, extract_dir, bufVars,
                                              out_calls, fs, printed, hmac_ok, composed>>
                            \/ \* fseek refuses the offset (line 147)
                               /\ dec.pt.compressed_size > 0
                               /\ ~fseek_ok(after, SkipOffset(dec.pt.compressed_size))
                               /\ ReturnFrom(heap, holds \cup {"plain_entry"}, 147, 1,
                                             {}, TRUE)
                               /\ pos' = after
                               /\ UNCHANGED <<callVars, i, algo, extract_dir, bufVars,
                                              out_calls, fs, printed, hmac_ok, composed,
                                              faulted>>
                            \/ /\ IF dec.pt.compressed_size > 0
                                  THEN fseek_ok(after, SkipOffset(dec.pt.compressed_size))
                                  ELSE TRUE
                               /\ Goto("loop")
                               /\ i' = i + 1
                               /\ pos' = (IF dec.pt.compressed_size > 0
                                          THEN after + SkipOffset(dec.pt.compressed_size)
                                          ELSE after)
                               /\ residue' = residue \cup {"plain_entry"}
                               /\ UNCHANGED <<callVars, keyVars, heap, heapErr, holds,
                                              in_open, in_closes, algo, extract_dir, bufVars,
                                              out_calls, fs, printed, hmac_ok, composed,
                                              faulted>>
                    ELSE /\ Goto("print")
                         /\ pos' = after
                         /\ plain_entry' = Some(dec.pt)
                         /\ holds' = holds \cup {"plain_entry"}
                         /\ UNCHANGED <<callVars, keyVars, heap, heapErr, residue, in_open,
                                        in_closes, i, algo, extract_dir, full_path, enc_buf, read_size,
                                        comp_buf, out_buf, out_calls, fs, listVars, hmac_ok,
                                        composed, faulted>>

\* the line printed for an entry
Line(e) == [mode |-> mode_to_string(e.mode), size |-> e.original_size,
            filename |-> e.filename]

\* lines 152-172: print the entry, skip its payload
L_Print ==
    /\ op = "list" /\ pc = "print"
    /\ printed' = Append(printed, Line(Entry))
    /\ \/ \* ftell (line 162) or fseek (line 169) fails
          /\ Entry.compressed_size > 0
          /\ \E line \in {162, 169} : Return(line, 1, {}, TRUE)
          /\ faulted' = TRUE
          /\ UNCHANGED <<callVars, pos, i, algo, extract_dir, bufVars, out_calls, fs, errors,
                         hmac_ok, opens, composed>>
       \/ \* fseek refuses the offset (line 169)
          /\ Entry.compressed_size > 0
          /\ ~fseek_ok(pos, SkipOffset(Entry.compressed_size))
          /\ Return(169, 1, {}, TRUE)
          /\ UNCHANGED <<callVars, pos, i, algo, extract_dir, bufVars, out_calls, fs, errors,
                         hmac_ok, opens, composed, faulted>>
       \/ /\ IF Entry.compressed_size > 0
             THEN fseek_ok(pos, SkipOffset(Entry.compressed_size)) ELSE TRUE
          /\ Goto("loop")
          /\ i' = i + 1
          /\ pos' = (IF Entry.compressed_size > 0
                     THEN pos + SkipOffset(Entry.compressed_size) ELSE pos)
          /\ plain_entry' = NULL
          /\ residue' = residue \cup (holds \cap StackSecrets)
          /\ holds' = holds \ StackSecrets
          /\ UNCHANGED <<callVars, keyVars, heap, heapErr, in_open, in_closes, algo,
                         extract_dir, full_path, enc_buf, read_size, comp_buf, out_buf, out_calls, fs,
                         errors, hmac_ok, opens, composed, faulted>>

\* an exit status that forgets the errors counted
ListStatusZero(errs) == 0

\* lines 176-180: the exit status of a listing that reached the end
ListStatus(errs) == IF errs > 0 THEN 1 ELSE 0

\* lines 173-180
L_Finish ==
    /\ op = "list" /\ pc = "loop" /\ i >= Header.file_count
    /\ Return(IF errors > 0 THEN 178 ELSE 180, ListStatus(errors), {}, TRUE)
    /\ UNCHANGED <<callVars, restVars, faulted>>

NextList ==
    \/ L_Open \/ L_Validate \/ L_DeriveKeys \/ L_VerifyHmac \/ L_Entry \/ L_Print
    \/ L_Finish


Next == NextExtract \/ NextList

Spec == Init /\ [][Next]_vars

\* extract_files and list_files are sequential code: the statement the call
\* is at is executed
SpecLive == Init /\ [][Next]_vars /\ WF_vars(Next)

(***************************************************************************)
(* collect_files, file_ops.c lines 63-169.  The recursion is kept as the   *)
(* stack dirs of the directories that are open; a call that returns 1      *)
(* makes every caller return 1.                                            *)
(***************************************************************************)
MAX_PATH_LENGTH == 4096
MAX_NAME_LENGTH == 256
MaxCalls == 2

\* what the calls of collect_files leave alone
archiveVars == <<op, password, outdir, force, archive, packed, flip, fs0, pc, ret, retLine,
                 pos, i, algo, file_key, meta_key, extract_dir, plain_entry, full_path,
                 enc_buf, read_size, comp_buf, out_buf, in_open, in_closes, out_calls, heap, heapErr,
                 holds, residue, fs, printed, errors, hmac_ok, opens, faulted, composed>>

\* the names readdir returns for the directory at path, "." and ".." included
Dirents(fsys, path) ==
    LET d == Resolve(fsys, path).key
    IN  {k[Len(k)] : k \in {n \in DOMAIN fsys : /\ Len(n) = Len(d) + 1
                                                /\ SubSeq(n, 1, Len(d)) = d}}
        \cup {Str_dot, DotDot}

\* stat(path, &st) == 0 && S_ISREG(st.st_mode)
stat_isreg(fsys, path) ==
    LET r == Resolve(fsys, path)
    IN  r.ok /\ r.key \in DOMAIN fsys /\ fsys[r.key].kind = "file"

\* a bound test that lets one file more in
ListFullLate(count, max) == count > max

\* lines 79 and 150: *file_count >= max_files
ListFull(count, max) == count >= max

\* return 1, through every caller
CF_Return1 ==
    /\ dirs' = <<>> /\ cf_ret' = 1
    /\ UNCHANGED <<file_list, file_count>>

\* lines 79-90 and 150-163: a regular file is met; callers are the
\* directories that stay open
StoreFile(path, callers) ==
    IF ListFull(file_count, max_files) THEN CF_Return1
    ELSE \/ \* strdup fails
            /\ file_list' = [file_list EXCEPT ![file_count] = NULL]
            /\ dirs' = <<>> /\ cf_ret' = 1
            /\ UNCHANGED file_count
         \/ /\ file_list' = [file_list EXCEPT ![file_count] = Some(path)]
            /\ file_count' = file_count + 1
            /\ dirs' = callers
            /\ cf_ret' = (IF callers = <<>> THEN 0 ELSE -1)

\* lines 63-92: collect_files(path, ...) up to its loop
collect_files(path, callers) ==
    IF Len(path) >= MAX_PATH_LENGTH - MAX_NAME_LENGTH - 1 THEN CF_Return1
    ELSE \/ \* opendir succeeds
            /\ stat_isdir(fs, path)
            /\ dirs' = <<[path |-> path, todo |-> Dirents(fs, path)]>> \o callers
            /\ cf_ret' = -1
            /\ UNCHANGED <<file_list, file_count>>
         \/ \* opendir fails on a directory
            /\ stat_isdir(fs, path)
            /\ CF_Return1
         \/ /\ ~stat_isdir(fs, path)
            /\ IF stat_isreg(fs, path) THEN StoreFile(path, callers) ELSE CF_Return1

\* the caller calls collect_files with the next path
CF_Call ==
    /\ op = "collect" /\ dirs = <<>> /\ pending # <<>>
    /\ pending' = Tail(pending)
    /\ collect_files(Head(pending), <<>>)
    /\ UNCHANGED <<archiveVars, max_files>>

\* lines 95-166: one turn of the readdir loop of the innermost call
CF_Readdir ==
    /\ op = "collect" /\ dirs # <<>>
    /\ \E name \in dirs[1].todo :
         LET path == dirs[1].path
             rest == <<[dirs[1] EXCEPT !.todo = @ \ {name}]>> \o Tail(dirs)
             child == JoinPath(path, name)
         IN  IF name \in {Str_dot, DotDot}
             THEN dirs' = rest /\ UNCHANGED <<file_list, file_count, cf_ret>>
             ELSE IF \/ Len(name) >= MAX_NAME_LENGTH
                     \/ Len(path) + Len(name) + 2 >= MAX_PATH_LENGTH
                     \/ has_path_traversal(child) # 0
                     \/ ~stat_ok(fs, child)
             THEN CF_Return1
             ELSE \/ \* malloc fails
                     CF_Return1
                  \/ IF stat_isdir(fs, child) THEN collect_files(child, rest)
                     ELSE IF stat_isreg(fs, child) THEN StoreFile(child, rest)
                     ELSE dirs' = rest /\ UNCHANGED <<file_list, file_count, cf_ret>>
    /\ UNCHANGED <<archiveVars, max_files, pending>>

\* lines 168-169: readdir returns NULL, the innermost call returns 0
CF_Closedir ==
    /\ op = "collect" /\ dirs # <<>> /\ dirs[1].todo = {}
    /\ dirs' = Tail(dirs)
    /\ cf_ret' = (IF Tail(dirs) = <<>> THEN 0 ELSE -1)
    /\ UNCHANGED <<archiveVars, file_list, file_count, max_files, pending>>

\* the caller has an empty list of max_files slots and calls collect_files
\* with each of its paths, in a tree of files and directories under the
\* working directory
InitCollect ==
    LET d == <<"d">>
        TreeFiles == {Append(Cwd, Str_a), Append(Cwd, Str_b), Cwd \o <<d, Str_a>>,
                      Cwd \o <<d, d, Str_a>>}
        Tree(files) == [k \in files |-> File(<<5>>, 420)]
                       @@ (Append(Cwd, d) :> Dir) @@ (Cwd \o <<d, d>> :> Dir) @@ FsBare
    IN  \E files \in SUBSET TreeFiles, m \in 1..3,
           paths \in SeqsUpTo({Str_dot, Str_a, d, <<"x">>}, MaxCalls) :
            /\ Start("collect", WriterPassword, NULL, 0,
                     BigArchive(0, 6, COMPRESSION_ZLIB, <<>>), NULL, Tree(files))
            /\ flip = NULL
            /\ file_list = [s \in 0..(m - 1) |-> NULL] /\ file_count = 0 /\ max_files = m
            /\ dirs = <<>> /\ cf_ret = -1 /\ pending = paths

NextCollect == CF_Call \/ CF_Readdir \/ CF_Closedir

SpecCollect == InitCollect /\ [][NextCollect]_vars

(***************************************************************************)
(* Properties of extract_files and list_files.                             *)
(***************************************************************************)
Inputs == packed[1]

\* the node that the name of an input denotes under the extraction directory
NodeOf(fsys, dir, name) ==
    LET d == Resolve(fsys, dir)
        r == Walk(fsys, d.key, Components(name))
    IN  IF d.ok /\ r.ok /\ r.key \in DOMAIN fsys THEN Some(fsys[r.key]) ELSE NULL

\* input f is on disk with its name, bytes and mode
Landed(f) == NodeOf(fs, extract_dir[1], f.name) = Some(File(f.data, f.mode))

\* an extract_files call on an archive written by pack, with the writer's
\* password, that has returned without a failed allocation, read, write or
\* key derivation, in a working directory that exists and whose tree holds
\* no file yet
RoundTripCall ==
    /\ op = "extract" /\ packed # NULL /\ password = WriterPassword
    /\ pc = "done" /\ ~faulted
    /\ stat_isdir(fs0, Str_dot)
    /\ \A key \in DOMAIN fs0 : fs0[key].kind = "dir"

\* no two inputs share a name and no input's name is a directory of another's
NamesCompatible(inputs) ==
    \A j, k \in 1..Len(inputs) :
        j # k => /\ inputs[j].name # inputs[k].name
                 /\ ~HasPrefix(inputs[k].name, inputs[j].name \o <<"/">>)

C2_KeysDiffer ==
    (pc \notin {"start", "validate", "derive", "done"}) => file_key # meta_key

\* the HMAC of the header under the key that the password of the call gives
HmacMatches ==
    compute_hmac(derive_key(password, Header.salt, "file encryption"),
                 HeaderBytes(Header)) = Header.hmac

\* C3: extract_files opens no sealed data and changes nothing on disk unless
\* the header HMAC recomputed under file_key equals the stored one; with
\* another password than the writer's it returns 1 at the HMAC check, before
\* the output directory is resolved and before any entry is read.
C3_NothingBeforeHmac ==
    op = "extract" =>
        /\ (opens > 0 \/ fs # fs0) => (hmac_ok /\ HmacMatches)
        /\ (pc \notin {"start", "validate", "derive", "hmac", "done"}) => HmacMatches
        /\ password # WriterPassword =>
              /\ pc \in {"start", "validate", "derive", "hmac", "done"}
              /\ (pc = "done" /\ ~faulted) =>
                    /\ ret = 1 /\ retLine = 82
                    /\ extract_dir = NULL /\ pos = HEADER_SIZE /\ opens = 0 /\ fs = fs0

\* a call with the wrong password has returned from the HMAC check
C3_Witness ==
    /\ op = "extract" /\ password # WriterPassword
    /\ pc = "done" /\ retLine = 82 /\ ret = 1 /\ ~HmacMatches


\* the metadata of the entry at the read position, opened under meta_key
MetaAtPos == decrypt_aes_gcm(meta_key, BlobAt(archive, pos, ENTRY_SIZE, "entry"))

\* the six ways in which the metadata of an entry is bad
BadMetadata(dec) ==
    IF dec.rc # 0 THEN TRUE
    ELSE \/ dec.len # PLAIN_SIZE
         \/ ~dec.pt.term
         \/ has_path_traversal(dec.pt.filename) = 1
         \/ (dec.pt.compressed_size > 0 /\ dec.pt.original_size = 0)
         \/ dec.pt.original_size > MAX_FILE_SIZE

\* C4: at the first entry whose metadata does not open under meta_key, has
\* the wrong length, an unterminated filename, a filename with traversal,
\* compressed_size > 0 with original_size = 0, or original_size above
\* MAX_FILE_SIZE, extract_files returns 1 in that step without touching the
\* disk, and nothing is written after the return.
C4_StrictMetadata ==
    [][ /\ ( /\ op = "extract" /\ pc = "loop" /\ i < Header.file_count
             /\ ReadComplete(archive, pos, ENTRY_SIZE)
             /\ BadMetadata(MetaAtPos) )
           => (pc' = "done" /\ ret' = 1 /\ retLine' \in {191, 201} /\ fs' = fs)
        /\ (op = "extract" /\ pc = "done") => (fs' = fs /\ pc' = "done")
      ]_vars

\* the second entry announced compressed data for an empty file: the call
\* returned 1 after the first entry was written
C4_Witness ==
    /\ op = "extract" /\ pc = "done" /\ ret = 1 /\ retLine = 201 /\ i = 1
    /\ fs # fs0
    /\ Entry.compressed_size > 0 /\ Entry.original_size = 0

\* C5: for an entry of original_size > 0 the disk changes only in the write
\* step, when the payload has opened under file_key and decompressed to
\* exactly original_size bytes; when the payload does not open or the length
\* differs, extract_files returns 1 and the disk stays as it was.
C5_WriteAfterOpenAndInflate ==
    [][ ( /\ op = "extract" /\ pc \in {"body", "read", "decrypt", "decompress", "write"}
          /\ Entry.original_size > 0 )
        => /\ (fs' # fs) =>
                 /\ pc = "write"
                 /\ decrypt_aes_gcm(file_key, enc_buf).rc = 0
                 /\ comp_buf = decrypt_aes_gcm(file_key, enc_buf).pt
                 /\ out_buf = decompress_data(comp_buf, Entry.original_size, algo)
                 /\ Len(out_buf) = Entry.original_size
           /\ (pc = "decrypt" /\ decrypt_aes_gcm(file_key, enc_buf).rc # 0)
                 => (pc' = "done" /\ ret' = 1 /\ fs' = fs)
           /\ ( /\ pc = "decompress"
                /\ Len(decompress_data(comp_buf, Entry.original_size, algo))
                       # Entry.original_size )
                 => (pc' = "done" /\ ret' = 1 /\ fs' = fs)
      ]_vars

\* with force = 1 and a file already at the path, a payload that does not
\* open ended the call and the file is as it was
C5_Witness ==
    /\ op = "extract" /\ pc = "done" /\ ret = 1 /\ retLine = 311 /\ force = 1
    /\ access_ok(fs, Path)
    /\ NodeOf(fs, extract_dir[1], Entry.filename) = Some(File(<<1, 2>>, 384))

\* C6 as stated: every full_path is the join of a directory and a filename
\* that has_path_traversal both finds free of traversal, whichever source
\* the directory came from.
C6_BothComponentsChecked ==
    \A c \in composed :
        /\ c.path = JoinPath(c.dir, c.name)
        /\ has_path_traversal(c.dir) = 0
        /\ has_path_traversal(c.name) = 0

\* C7 as stated: the filename of an entry that passed validation, and of
\* every line list_files printed, has no component "..".
C7_NoDotDotComponent ==
    /\ (plain_entry # NULL /\ pc \notin {"loop", "done"})
           => ~HasDotDotComponent(Entry.filename)
    /\ \A k \in 1..Len(printed) : ~HasDotDotComponent(printed[k].filename)

\* C8 as stated: every return after key derivation was attempted leaves
\* both keys zeroed.
C8_KeysZeroedAtReturn ==
    (pc = "done" /\ retLine >= (IF op = "extract" THEN 66 ELSE 58))
        => (file_key = ZeroKey /\ meta_key = ZeroKey)

\* C9 as stated: in extract_files no buffer that held decrypted metadata,
\* decrypted compressed data or file contents is released unzeroed.
C9_PlaintextZeroed ==
    op = "extract" => residue = {}

\* C10: at every return after the archive was opened the stream has been
\* closed exactly once, every output handle opened has been closed, and every
\* heap buffer allocated has been freed exactly once; at the start of each
\* iteration of extract_files only extract_dir is live (nothing in list_files).
C10_ResourcesReleased ==
    /\ (pc = "done" /\ retLine \notin {28, 30}) =>
           /\ in_closes = 1 /\ ~in_open
           /\ out_calls.opens = out_calls.closes
           /\ Live(heap) = {} /\ ~heapErr
    /\ pc = "loop" =>
           /\ Live(heap) = (IF op = "extract" THEN {"extract_dir"} ELSE {})
           /\ ~heapErr /\ in_open /\ in_closes = 0
           /\ out_calls.opens = out_calls.closes

\* a call returned from the length check after decompression, in its second
\* iteration, with every buffer of the entry allocated and freed
C10_Witness ==
    /\ op = "extract" /\ pc = "done" /\ retLine = 338 /\ i = 1
    /\ in_closes = 1 /\ out_calls.opens = 1
    /\ \A b \in AllPayloadBufs : heap[b] = "freed"


\* the return statements of header validation and of the HMAC comparison
ValidationReturns == IF op = "extract" THEN {42, 51, 57} ELSE {40, 45}
HmacReturn == IF op = "extract" THEN 82 ELSE 74

\* a call on an archive with one header bit inverted has returned, no library
\* call having failed
FlippedCallDone == flip # NULL /\ pc = "done" /\ ~faulted

\* with one header bit inverted the call never leaves the header stage and
\* returns 1 from validation or from the HMAC comparison, no entry read
FlipRejected ==
    /\ flip # NULL => pc \in {"start", "validate", "derive", "hmac", "done"}
    /\ FlippedCallDone =>
          /\ ret = 1 /\ retLine \in ValidationReturns \cup {HmacReturn}
          /\ opens = 0 /\ pos = HEADER_SIZE /\ printed = <<>> /\ fs = fs0

\* C11 as stated: one inverted bit anywhere in the header makes extract_files
\* and list_files return 1 in header validation or HMAC verification without
\* reading an entry, and an inverted low bit of file_count is rejected by the
\* HMAC check.
C11_AnyHeaderBit ==
    /\ FlipRejected
    /\ (FlippedCallDone /\ flip = Some(<<"file_count", 0>>)) => retLine = HmacReturn

\* C11, amended: one inverted bit anywhere in the header makes extract_files
\* and list_files return 1 in header validation or HMAC verification without
\* reading an entry; an inverted low bit of file_count is rejected by the HMAC
\* check when the count read is at most MAX_FILES and by the file count
\* validation when it is above (the archive held MAX_FILES files).
C11_HeaderBit ==
    /\ FlipRejected
    /\ (FlippedCallDone /\ flip = Some(<<"file_count", 0>>)) =>
          retLine = (IF Header.file_count <= MAX_FILES THEN HmacReturn
                     ELSE IF op = "extract" THEN 57 ELSE 45)

\* the low bit of the file count of a one-file archive was inverted and
\* extract_files returned from the HMAC comparison
C11_Witness ==
    /\ op = "extract" /\ FlippedCallDone /\ flip = Some(<<"file_count", 0>>)
    /\ Header.file_count = 0 /\ Header.version = 6
    /\ ret = 1 /\ retLine = 82

\* the header has a wrong magic, a version outside 4..6 or too many files
BadHeader ==
    \/ Header.magic # Magic
    \/ Header.version \notin {4, 5, 6}
    \/ Header.file_count > 1024

\* C12: once the archive is open and the header block read, for a header
\* with a wrong magic, a version outside {4, 5, 6} or a
\* file_count above MAX_FILES, extract_files and list_files return 1 from
\* header validation, no key derived and no entry read; the return for magic
\* and version is never taken when the magic is right and the version is 4,
\* 5 or 6.
C12_HeaderValidation ==
    /\ ( /\ BadHeader /\ pc # "start" /\ retLine \notin {28, 30}
         /\ ReadComplete(archive, 0, HEADER_SIZE) ) =>
          /\ pc \in {"validate", "done"}
          /\ file_key = NoKey /\ meta_key = NoKey
          /\ opens = 0 /\ pos = HEADER_SIZE /\ printed = <<>> /\ fs = fs0
          /\ pc = "done" => (ret = 1 /\ retLine \in ValidationReturns)
    /\ (pc = "done" /\ retLine \in {42, 40}) =>
          (Header.magic # Magic \/ Header.version \notin {4, 5, 6})
    /\ (pc = "done" /\ retLine \in {57, 45}) => Header.file_count > 1024

\* list_files returned 1 for a version 6 header that announces 1025 files
C12_Witness ==
    /\ op = "list" /\ pc = "done" /\ ret = 1 /\ retLine = 45
    /\ Header.magic = Magic /\ Header.version = 6 /\ Header.file_count = 1025
    /\ file_key = NoKey /\ opens = 0


\* the header outdir opened under the metadata key of the call's password
OutdirOpened ==
    decrypt_aes_gcm(derive_key(password, Header.salt, "metadata encryption"),
                    OutdirBlob(Header))

\* the directory chosen: the argument, else the header's, else "."
ChosenDir ==
    IF outdir # NULL THEN outdir[1]
    ELSE IF Header.version = 6 /\ Header.outdir_len > 0 THEN OutdirOpened.pt
    ELSE Str_dot

\* the path named a directory when the call started
WasDirectory(path) ==
    LET r == Resolve(fs0, path)
    IN  r.ok /\ r.key \in DOMAIN fs0 /\ fs0[r.key].kind = "dir"

InEntryLoop ==
    pc \in {"loop", "path", "parents", "body", "read", "decrypt", "decompress", "write"}

\* C13: in the entry loop of extract_files extract_dir is the chosen
\* directory (the argument, else the decrypted header outdir of a version 6
\* header with outdir_len > 0, else ".") when that was a directory, and "."
\* otherwise, and it was a directory; the call returns 1 from line 169 only
\* when neither the chosen directory nor "." was one.
C13_DirectoryResolution ==
    op = "extract" =>
        /\ InEntryLoop =>
              /\ extract_dir = Some(IF WasDirectory(ChosenDir) THEN ChosenDir ELSE Str_dot)
              /\ WasDirectory(extract_dir[1])
        /\ (pc = "done" /\ retLine = 169) =>
              (ret = 1 /\ ~WasDirectory(ChosenDir) /\ ~WasDirectory(Str_dot))
        /\ (pc = "done" /\ ret = 0) => WasDirectory(Str_dot) \/ WasDirectory(ChosenDir)

\* without an argument the header's outdir "o" was opened and, being a
\* directory, is where the loop extracts to
C13_Witness ==
    /\ op = "extract" /\ pc = "loop" /\ outdir = NULL
    /\ Header.version = 6 /\ Header.outdir_len = 1
    /\ extract_dir = Some(Str_o) /\ WasDirectory(Str_o)

\* the header outdir is too long for its field, does not open, or has traversal
OutdirRefused ==
    IF Header.outdir_len > 4096 - 12 - 16 THEN TRUE
    ELSE IF OutdirOpened.rc # 0 THEN TRUE
    ELSE has_path_traversal(OutdirOpened.pt) = 1

\* C14 as stated: for a version 6 header with outdir_len > 0 extract_files
\* returns 1 when outdir_len > MAX_OUTDIR - 12 - 16, when the outdir does not
\* open under meta_key or when the opened outdir has traversal.
C14_OutdirAlwaysValidated ==
    ( /\ op = "extract" /\ pc = "done"
      /\ Header.version = 6 /\ Header.outdir_len > 0 /\ OutdirRefused )
        => ret = 1

\* What the code does for C14: when the caller passes no outdir and the header
\* is version 6 with outdir_len > 0, extract_files returns 1 in the resolution
\* step if
\* outdir_len > MAX_OUTDIR - 12 - 16, if the outdir does not open under
\* meta_key or if the opened outdir has traversal; whenever it opens the
\* outdir, ciphertext, nonce and tag lie inside the 4096-byte field.
C14_OutdirValidated ==
    [][ (op = "extract" /\ pc = "outdir") =>
           /\ ( /\ outdir = NULL /\ Header.version = 6 /\ Header.outdir_len > 0
                /\ OutdirRefused )
                 => (pc' = "done" /\ ret' = 1 /\ extract_dir' = NULL /\ fs' = fs)
           /\ (opens' # opens) => Header.outdir_len + 12 + 16 <= 4096
      ]_vars

\* a header outdir one byte too long for its field ended the call
C14_Witness ==
    /\ op = "extract" /\ pc = "done" /\ ret = 1 /\ retLine = 101
    /\ outdir = NULL /\ Header.version = 6 /\ Header.outdir_len = 4096 - 12 - 16 + 1
    /\ opens = 0


\* the header is one that extract_files gets past: lines 39-58 and 69-84
ExtractAccepts == X_HeaderValid /\ HmacMatches

\* the call is past the header stage or has returned, the header block read
\* and no library call having failed
HeaderDecided ==
    /\ pc \notin {"start", "validate", "derive", "hmac"}
    /\ ~faulted /\ ReadComplete(archive, 0, HEADER_SIZE)

\* C15 as stated: list_files gets past header validation and HMAC
\* verification exactly for the headers and passwords for which extract_files
\* does.
C15_SameHeadersAccepted ==
    HeaderDecided => (hmac_ok <=> ExtractAccepts)

\* extract_files alone gets past the header stage exactly when ExtractAccepts
C15_ExtractReference ==
    (op = "extract" /\ HeaderDecided) => (hmac_ok <=> ExtractAccepts)


\* something is on disk at the path
OnDisk(path) ==
    LET r == Resolve(fs, path) IN r.ok /\ r.key \in DOMAIN fs

\* C16: with force = 0, when the full path of the entry (extract_dir, "/",
\* filename) exists, extract_files returns 1 in that step: no parent directory
\* made, nothing on disk changed, no payload byte read.
C16_ExistingNotOverwritten ==
    [][ ( /\ op = "extract" /\ pc = "path" /\ force = 0
          /\ OnDisk(extract_dir[1] \o <<"/">> \o Entry.filename) )
        => /\ pc' = "done" /\ ret' = 1
           /\ fs' = fs /\ pos' = pos /\ opens' = opens
      ]_vars

\* the file that was at the path of the first entry before the call is as it
\* was, and the call returned 1 from the existence test
C16_Witness ==
    /\ op = "extract" /\ pc = "done" /\ ret = 1 /\ retLine = 221 /\ force = 0
    /\ i = 0 /\ fs = fs0
    /\ NodeOf(fs, extract_dir[1], Entry.filename) = Some(File(<<1, 2>>, 384))


\* the files extract_files has written so far: the files on disk that were not
\* there when the call started, or were there with other bytes or another mode
WrittenFiles ==
    {k \in DOMAIN fs : /\ fs[k].kind = "file"
                       /\ IF k \in DOMAIN fs0 THEN fs0[k] # fs[k] ELSE TRUE}

\* the step in which extract_files fails
ExtractFails == op = "extract" /\ pc # "done" /\ pc' = "done" /\ ret' = 1

\* the place on disk of the full path of the entry being extracted, as a set
OwnFile == IF full_path = NULL THEN {} ELSE {Resolve(fs, Path).key}

\* C17 as stated: the step in which extract_files fails leaves every file
\* written so far on disk with the bytes and the mode it had.
C17_EarlierOutputsKept ==
    [][ ExtractFails =>
          \A k \in WrittenFiles : k \in DOMAIN fs' /\ fs'[k] = fs[k] ]_vars

\* C17: the step in which extract_files fails at entry i leaves every file
\* written for entries 0..i-1 on disk with the bytes and the mode it had,
\* except a file at the full path of entry i itself (a repeated name, with
\* force set), which fopen(full_path, "wb") has truncated before the write failed.
C17_OtherOutputsKept ==
    [][ ExtractFails =>
          \A k \in WrittenFiles \ OwnFile : k \in DOMAIN fs' /\ fs'[k] = fs[k] ]_vars

\* the write of the second entry failed, and the file written for the first
\* entry, at another path, is on disk
C17_Witness ==
    /\ op = "extract" /\ pc = "done" /\ ret = 1 /\ retLine = 365 /\ i = 1
    /\ \E k \in WrittenFiles : k # Resolve(fs, Path).key /\ fs[k].data # <<>>


\* the number of FileEntry records in the stream
EntryCount(items) == Cardinality({k \in 1..Len(items) : items[k].kind = "entry"})

\* the stream stops before the end of the header, or before the end of the
\* payload of the last of the file_count entries the header announces
Truncated ==
    LET n == archive.header.file_count
        m == EntryCount(archive.items)
    IN  IF archive.len < HEADER_SIZE \/ n > m THEN TRUE
        ELSE n = m /\ archive.len < FullLength(archive.items)

\* C18: when the archive ends before the header, any of the file_count
\* FileEntry records or any payload (nonce, tag, ciphertext) is complete,
\* extract_files returns 1.
C18_ExtractTruncated ==
    (op = "extract" /\ Truncated /\ pc = "done") => ret = 1

\* extract_files returned 1 from a short read inside a payload (the nonce and
\* tag, or the ciphertext), with nothing else having failed in that call
C18_Witness ==
    /\ op = "extract" /\ Truncated /\ ~faulted
    /\ pc = "done" /\ ret = 1 /\ retLine \in {264, 287}


\* C19: when the archive ends before the header, a FileEntry record or any
\* payload, the last entry's included, is complete, list_files returns 1.
C19_ListTruncated ==
    (op = "list" /\ Truncated /\ pc = "done") => ret = 1


\* list_files is about to read a FileEntry whose metadata does not open
MetaOpenFails ==
    /\ op = "list" /\ pc = "loop" /\ i < Header.file_count
    /\ ReadComplete(archive, pos, ENTRY_SIZE)
    /\ MetaAtPos.rc # 0

\* list_files has counted an error and no further FileEntry can be read
ListHalted ==
    /\ op = "list" /\ pc = "loop" /\ errors > 0
    /\ ~ReadComplete(archive, pos, ENTRY_SIZE)

\* C20: the step of list_files that reads an entry whose metadata does not
\* open prints nothing and either returns 1 or, with fewer than 28 bytes left,
\* goes back to the loop with an error counted and too few bytes for another
\* FileEntry; from there the next step prints nothing and returns 1.
C20_HaltsAfterAuthError ==
    [][ /\ MetaOpenFails =>
            /\ printed' = printed
            /\ \/ pc' = "done" /\ ret' = 1
               \/ ListHalted'
        /\ ListHalted => (pc' = "done" /\ ret' = 1 /\ printed' = printed)
      ]_vars

\* the metadata of the first of two entries did not open, fewer than 28 bytes
\* followed it, and list_files returned 1 from the next read of a FileEntry
\* with nothing printed
C20_Witness ==
    /\ op = "list" /\ pc = "done" /\ ret = 1 /\ retLine = 99
    /\ i = 1 /\ opens = 1 /\ errors = 1 /\ printed = <<>>
    /\ pos = HEADER_SIZE + ENTRY_SIZE
    /\ BlobAt(archive, HEADER_SIZE, ENTRY_SIZE, "entry").pt.filename = Str_da


\* list_files is about to read a FileEntry whose metadata opens and is invalid
MetaInvalid ==
    /\ op = "list" /\ pc = "loop" /\ i < Header.file_count
    /\ ReadComplete(archive, pos, ENTRY_SIZE)
    /\ MetaAtPos.rc = 0 /\ InvalidMetadata(MetaAtPos)

\* the stream position after an entry at pos and its compressed_size + 28 bytes
AfterPayload(csize) ==
    pos + ENTRY_SIZE + (IF csize > 0 THEN csize + AES_NONCE_SIZE + AES_TAG_SIZE ELSE 0)

\* C21: on an entry whose metadata opens and is invalid, list_files counts an
\* error, skips compressed_size + 28 bytes when compressed_size > 0 and goes on
\* with the next entry, unless a library call fails; it returns 0 exactly when
\* it went through all file_count entries with no entry counted as failed.
C21_LenientOnInvalid ==
    [][ /\ MetaInvalid =>
            /\ printed' = printed
            /\ \/ /\ pc' = "loop" /\ i' = i + 1 /\ errors' = errors + 1
                  /\ pos' = AfterPayload(MetaAtPos.pt.compressed_size)
               \/ pc' = "done" /\ ret' = 1 /\ faulted'
        /\ (op = "list" /\ pc # "done" /\ pc' = "done") =>
              (ret' = 0 <=> (hmac_ok /\ errors' = 0 /\ i' = Header.file_count
                              /\ Len(printed') = Header.file_count))
      ]_vars


\* the FileEntry records of the archive, in stream order
IsEntry(it) == it.kind = "entry"
EntryItems == SelectSeq(archive.items, IsEntry)

\* the metadata of entry item e decodes: it opens under the key of the
\* password and passes the validation
Decodes(e) ==
    LET dec == decrypt_aes_gcm(derive_key(password, Header.salt, "metadata encryption"),
                               e.blob)
    IN  IF dec.rc # 0 THEN FALSE ELSE ~InvalidMetadata(dec)

\* the stream is laid out as the format says: file_count entries, each
\* followed by a payload of 28 + compressed_size bytes exactly when its
\* original_size is above 0, and nothing is cut off
FormatFollowed ==
    LET items == archive.items
        n == Len(items)
    IN  /\ archive.len = FullLength(items)
        /\ Len(EntryItems) = Header.file_count
        /\ \A k \in 1..n :
             IF items[k].kind = "entry"
             THEN IF items[k].blob.pt.original_size > 0
                  THEN IF k < n
                       THEN /\ items[k + 1].kind = "payload"
                            /\ items[k + 1].size =
                                 PayloadSize(items[k].blob.pt.compressed_size)
                       ELSE FALSE
                  ELSE IF k < n THEN items[k + 1].kind = "entry" ELSE TRUE
             ELSE IF k > 1 THEN items[k - 1].kind = "entry" ELSE FALSE

\* list_files has returned, no library call failed, the header verified and
\* the metadata of every entry decodes
ListedAll ==
    /\ op = "list" /\ pc = "done" /\ ~faulted /\ hmac_ok
    /\ FormatFollowed
    /\ \A k \in 1..Len(EntryItems) : Decodes(EntryItems[k])

\* C22: when the header verifies and the metadata of every entry decodes,
\* list_files prints file_count lines, the k-th showing the mode string, the
\* original_size and the filename of the k-th entry.
C22_OneLinePerEntry ==
    ListedAll =>
        /\ Len(printed) = Header.file_count
        /\ \A k \in 1..Len(printed) : printed[k] = Line(EntryItems[k].blob.pt)


\* extract_files is at the body of an entry with original_size 0
AtEmptyEntry == op = "extract" /\ pc = "body" /\ Entry.original_size = 0

\* C23: for an entry with original_size 0 extract_files either fails to open
\* the output file and returns 1 with the disk as it was, or leaves a
\* zero-length file at full_path, reads no byte of the stream and goes on to
\* the next entry, whether or not the mode could be set.
C23_EmptyFile ==
    [][ AtEmptyEntry =>
          LET k == Resolve(fs, Path).key
          IN  \/ pc' = "done" /\ ret' = 1 /\ fs' = fs
              \/ /\ pc' = "loop" /\ i' = i + 1 /\ pos' = pos
                 /\ DOMAIN fs' = DOMAIN fs \cup {k}
                 /\ \A j \in DOMAIN fs \ {k} : fs'[j] = fs[j]
                 /\ fs'[k].kind = "file" /\ fs'[k].data = <<>>
                 /\ (fs'[k].mode = Entry.mode \/ faulted')
      ]_vars

\* the only entry of the archive was an empty file with mode 0755, its mode
\* could not be set, the zero-length file is there with another mode and
\* extract_files returned 0
C23_Witness ==
    /\ op = "extract" /\ pc = "done" /\ ret = 0 /\ faulted
    /\ Header.file_count = 1 /\ Len(archive.items) = 1 /\ pos = HEADER_SIZE + ENTRY_SIZE
    /\ archive.items[1].blob.pt.mode = 493
    /\ NodeOf(fs, extract_dir[1], archive.items[1].blob.pt.filename) = Some(File(<<>>, 420))


\* the payload bytes that follow the FileEntry of e in the stream: none for
\* original_size 0, else nonce, tag and compressed_size bytes of ciphertext
FormatPayload(e) ==
    IF e.original_size > 0 THEN AES_NONCE_SIZE + AES_TAG_SIZE + e.compressed_size ELSE 0

\* extract_files moves the stream by the payload bytes of the format: by
\* nothing for an empty entry, else by nonce and tag, then by what the read
\* loop adds to read_size, which is compressed_size when the loop ends
ExtractMovesByFormat ==
    op = "extract" =>
        /\ (pc = "body" /\ pc' = "loop") => pos' = pos + FormatPayload(Entry)
        /\ (pc = "body" /\ pc' = "read")
              => pos' = pos + AES_NONCE_SIZE + AES_TAG_SIZE /\ read_size' = 0
        /\ (pc = "read" /\ pc' = "read") => pos' - pos = read_size' - read_size
        /\ (pc = "read" /\ pc' = "decrypt")
              => pos' = pos /\ read_size = Entry.compressed_size

\* C25: after an entry whose metadata decoded, list_files and extract_files
\* both move the stream by the payload bytes of that entry, so that both read
\* the next FileEntry at the same offset; an entry with original_size > 0 and
\* compressed_size 0 included.
C25_SameEntryOffsets ==
    [][ /\ (op = "list" /\ pc = "print" /\ pc' = "loop")
              => pos' = pos + FormatPayload(Entry)
        /\ ExtractMovesByFormat
      ]_vars

\* what extract_files does on its own: it moves by the payload bytes of the
\* format
C25_ExtractFollowsFormat ==
    [][ExtractMovesByFormat]_vars

\* C26: in list_files the stream position never goes back, and after an
\* entry with compressed_size > 0 it is the end of the FileEntry plus
\* 28 + compressed_size, for every value of the 64-bit compressed_size.
C26_ForwardOnly ==
    [][ op = "list" =>
          /\ pos' >= pos
          /\ (pc = "print" /\ pc' = "loop" /\ Entry.compressed_size > 0)
                => pos' = pos + AES_NONCE_SIZE + AES_TAG_SIZE + Entry.compressed_size
          /\ (MetaInvalid /\ pc' = "loop" /\ MetaAtPos.pt.compressed_size > 0)
                => pos' = AfterPayload(MetaAtPos.pt.compressed_size)
      ]_vars

\* the size extract_files is about to pass to malloc for a buffer of the
\* entry: enc_buf (line 266), comp_buf (line 291), out_buf (line 314)
MallocRequests ==
    IF op # "extract" THEN {}
    ELSE IF pc = "body"
    THEN IF Entry.original_size # 0
            /\ ReadComplete(archive, pos, AES_NONCE_SIZE + AES_TAG_SIZE)
         THEN {[buf |-> "enc_buf", size |-> Entry.compressed_size]}
         ELSE {}
    ELSE IF pc = "decrypt" THEN {[buf |-> "comp_buf", size |-> Entry.compressed_size]}
    ELSE IF pc = "decompress" THEN {[buf |-> "out_buf", size |-> Entry.original_size]}
    ELSE {}

\* C27 as stated: every size extract_files requests for enc_buf, comp_buf or
\* out_buf is at most MAX_FILE_SIZE.
C27_AllocationsBounded ==
    \A r \in MallocRequests : r.size <= MAX_FILE_SIZE

\* C27: the size extract_files requests for out_buf, original_size, is at
\* most MAX_FILE_SIZE.
C27_OutputAllocationBounded ==
    \A r \in MallocRequests : r.buf = "out_buf" => r.size <= MAX_FILE_SIZE

\* extract_files is about to allocate out_buf for an entry of three bytes
C27_Witness ==
    /\ op = "extract" /\ pc = "decompress"
    /\ MallocRequests = {[buf |-> "out_buf", size |-> 3]}

\* the files on disk
FilesOf(fsys) == {k \in DOMAIN fsys : fsys[k].kind = "file"}

\* the path names a file that this run has put on disk
WrittenAt(path) ==
    LET r == Resolve(fs, path) IN r.ok /\ r.key \in FilesOf(fs) \ FilesOf(fs0)

\* C28: with force = 0 no step of extract_files changes or removes a file
\* that is on disk, whether it was there before the run or was written by an
\* earlier entry; an entry whose full path names a file written by an earlier
\* entry makes the call return 1.
C28_NoOverwriteWithoutForce ==
    [][ (op = "extract" /\ force = 0) =>
          /\ \A k \in FilesOf(fs) : k \in DOMAIN fs' /\ fs'[k] = fs[k]
          /\ (pc = "path" /\ WrittenAt(extract_dir[1] \o <<"/">> \o Entry.filename))
                => (pc' = "done" /\ ret' = 1)
      ]_vars

\* the second entry composed the path of the file written for the first one:
\* extract_files returned 1 and that file has its bytes
C28_Witness ==
    /\ op = "extract" /\ force = 0 /\ pc = "done" /\ ret = 1 /\ retLine = 221 /\ i = 1
    /\ WrittenAt(Path) /\ fs[Resolve(fs, Path).key].data # <<>>

\* every recursive call create_parent_dirs(filepath) leads to is made on a
\* path shorter than the path of its caller
RECURSIVE ShorterCalls(_, _)
ShorterCalls(fsys, filepath) ==
    LET path == ParentPath(filepath)
    IN  IF LastSlash(filepath) = 0 \/ Len(path) = 0 \/ stat_ok(fsys, path) THEN TRUE
        ELSE Len(path) < Len(filepath) /\ ShorterCalls(fsys, path)

\* the entry loop is within its bound
LoopBounded ==
    pc \in {"loop", "path", "parents", "body", "read", "decrypt", "decompress",
            "write", "print"}
        => /\ i <= Header.file_count /\ Header.file_count <= MAX_FILES
           /\ pc # "loop" => i < Header.file_count

\* C29: extract_files and list_files return on every archive; the loop index
\* stays within file_count <= MAX_FILES and every step that comes back to the
\* head of the entry loop has increased it, also when list_files moved the
\* stream; a pass through the payload read loop that does not return
\* increases read_size, which stays within compressed_size; and every
\* recursive call of create_parent_dirs is made on a strictly shorter path.
C29_Terminates ==
    /\ <>(pc = "done")
    /\ []LoopBounded
    /\ []((pc = "read") => read_size <= Entry.compressed_size)
    /\ []((pc = "parents") => ShorterCalls(fs, Path))
    /\ [][ /\ (pc' = "loop" /\ pc \notin {"checkdir", "hmac"}) => i' = i + 1
           /\ i' >= i
           /\ (pc = "read" /\ pc' = "read") => read_size' > read_size
         ]_vars

\* a call that went twice through the body of the payload read loop and came
\* to the last entry of its loop
C29_Witness ==
    /\ op = "extract" /\ pc = "read" /\ read_size > 1 /\ faulted
    /\ read_size < Entry.compressed_size
    /\ i > 0 /\ i + 1 = Header.file_count

(***************************************************************************)
(* Properties of collect_files.                                            *)
(***************************************************************************)
\* the slots below *file_count hold paths, and *file_count is within the list
ListWithinBound ==
    /\ file_count <= max_files
    /\ \A s \in 0..(file_count - 1) : file_list[s] # NULL

\* the names the innermost call took from its directory in this step, when
\* the call goes on
NamesTaken ==
    IF dirs # <<>> /\ Len(dirs') = Len(dirs) THEN dirs[1].todo \ dirs'[1].todo ELSE {}

\* C24: over any calls of collect_files and their recursive descents,
\* *file_count never goes down and never exceeds max_files, the slots below it
\* hold paths, and with the list full a regular file is never stored: the call
\* that meets it returns 1.
C24_FileCountBounded ==
    /\ []ListWithinBound
    /\ [][ /\ file_count' >= file_count
           /\ file_count >= max_files =>
                /\ file_list' = file_list /\ file_count' = file_count
                /\ \A name \in NamesTaken : ~stat_isreg(fs, JoinPath(dirs[1].path, name))
                /\ (dirs = <<>> /\ pending # <<>> /\ stat_isreg(fs, Head(pending)))
                      => cf_ret' = 1
         ]_vars

\* a walk over a tree of exactly max_files = 3 regular files has returned 0
\* with every slot filled
C24_Witness ==
    /\ op = "collect" /\ cf_ret = 0 /\ dirs = <<>> /\ pending = <<>>
    /\ max_files = 3 /\ file_count = 3
    /\ \A s \in 0..2 : file_list[s] # NULL

=============================================================================
